---- MODULE Spec2Model ----
(***************************************************************************)
(* PyGeom: the volume store (GeometryEngine), the geometry record          *)
(* (Geometry) and the ROOT hierarchy builder (GeometryROOT).               *)
(*                                                                         *)
(* The builder is a single-threaded recursive tree walk.  Every public     *)
(* call (build_volumes, place_volume) is one action; the recursion inside  *)
(* a call is computed by RECURSIVE operators that thread the builder's     *)
(* tables, the store and the pending exception, and that count the Python  *)
(* frames they open, so that unbounded recursion ends in RecursionError    *)
(* as it does in the interpreter.                                          *)
(*                                                                         *)
(* Representation:                                                         *)
(*  - a Geometry object is a record of the store `geo`, identified by its  *)
(*    index (object identity); None is index 0;                            *)
(*  - g4type, a string the code matches with regular expressions, is the   *)
(*    tuple of the groups those expressions extract:                       *)
(*      <<"Box">>, <<"Operation:", special, shape1, oper, shape2>>,        *)
(*      <<"CopyOf", shape>>;                                               *)
(*  - a units attribute is a tuple of unit symbols plus a flag telling     *)
(*    whether the Python attribute is a str (one unit for all components); *)
(*  - a number is carried exactly (n/d * pi^p); a Vector in cm is carried   *)
(*    in integers counting 1/100 cm;                                       *)
(*  - a Rotation is a 3x3 matrix; the angles of the records are whole      *)
(*    numbers of quarter turns, so its entries are -1, 0 and 1;            *)
(*  - a TGeoVolume is the index of the record it was made from, 0 for the  *)
(*    box made by create_root_volume;                                      *)
(*  - dimensions are assumed well formed for the record's shape type and   *)
(*    are not carried by the records of the builder;                       *)
(*  - in the text form a str is a sequence of atoms (separators, words),   *)
(*    and a record carries every attribute of the Geometry class.          *)
(***************************************************************************)
EXTENDS Integers, Sequences, FiniteSets, TLC

\* geo: the engine's list of Geometry records (the store).
\* shapes, volumes, translations: the builder's tables _shapes, _volumes and
\*   _translations, keyed by record name.
\* nodes: the AddNode calls made so far, in order.
\* reports, exc, nplace: of the last public call, the error messages it
\*   printed, the exception it raised ("" for none) and the number of
\*   place_volume frames it opened.
\* call: the last public call, <<function, mother argument, record>>; for
\*   the calls on the engine and on a Geometry, <<function, arguments, number
\*   of records in the store before>>.
\* fresh: the last public call found the builder as constructed.
\* ret: what the last call on the engine or on a Geometry returned or wrote
\*   (None for the calls of the builder).
\* lists: the list objects that Geometry objects hold by reference where
\*   object identity matters, by identity; the first two are the lists made
\*   once for the default arguments pos=[0, 0, 0] and rot=[0, 0, 0] of
\*   Geometry.__init__.
VARIABLES geo, shapes, volumes, translations, nodes, reports, exc, nplace, call,
          fresh, ret, lists

vars ==
  <<geo, shapes, volumes, translations, nodes, reports, exc, nplace, call, fresh, ret,
    lists>>

\* Largest number of records in a store whose records vary freely.
MaxStore == 2
\* Largest number of records in a store of operations under the top volume
\* and in a store of primitive volumes in a tree.
MaxWide == 3
\* Largest number of quarter turns in a rotation component of an operand.
MaxTurns == 1
\* Number of nested Python frames after which the interpreter raises
\* RecursionError (sys.getrecursionlimit(), scaled down).
RecursionLimit == 16

\* The default argument mother=None of place_volume.
None == "<None>"
\* The top volume's name.
top == "root"
\* The lists of the default arguments of Geometry.__init__, made when the
\* function is defined: pos=[0, 0, 0] and rot=[0, 0, 0].
DefaultLists == <<<<0, 0, 0>>, <<0, 0, 0>>>>
\* A mother name no record carries.
Nowhere == "nowhere"

\* Record names by position in the store.
NameAt == <<"A", "B", "C", "D", "E", "F">>

\* Shape types get_volume_shape constructs directly.
Primitive ==
  {"Box", "Tube", "Sphere", "Parallelepiped", "Trd", "G4Trap", "G4GenericTrap",
   "EllipticalTube", "Eltu", "Paraboloid", "Ellipsoid", "Cons", "Polycone",
   "Pgon", "Polyhedra"}

\* Rotation orders compute_trans_rotation has a branch for.
KnownOrders == {"", "xyz", "zxy", "yxz", "zyx", "yzx"}

----------------------------------------------------------------------------
(* GeometryEngine lookups *)

Indices(g) == [i \in 1..Len(g) |-> i]

\* find_volume: the first record with that name, None (0) when there is none.
find_volume(g, name) ==
  LET found == SelectSeq(Indices(g), LAMBDA i: g[i].name = name)
  IN  IF Len(found) = 0 THEN 0 ELSE found[1]

\* A faulty find_children: every record is a child, whatever its mother.
find_children_any_mother(g, name) ==
  IF Len(g) = 0 THEN [none |-> TRUE, found |-> <<>>]
  ELSE [none |-> FALSE, found |-> Indices(g)]

\* find_children: the records with that mother in store order; None when empty.
find_children(g, name) ==
  LET found == SelectSeq(Indices(g), LAMBDA i: g[i].mother = name)
  IN  IF Len(found) = 0 THEN [none |-> TRUE, found |-> <<>>]
      ELSE [none |-> FALSE, found |-> found]

----------------------------------------------------------------------------
(* Numbers *)

\* A Python number is carried exactly, as n/d * pi^p with d > 0 and n/d in
\* lowest terms (zero is 0/1 * pi^0).
RECURSIVE GCD(_, _)
GCD(x, y) == IF y = 0 THEN x ELSE GCD(y, x % y)

Abs(x) == IF x < 0 THEN -x ELSE x

Number(n, d, p) ==
  IF n = 0 THEN [n |-> 0, d |-> 1, p |-> 0]
  ELSE IF d = 1 THEN [n |-> n, d |-> 1, p |-> p]
  ELSE LET k == GCD(Abs(n), d) IN [n |-> n \div k, d |-> d \div k, p |-> p]

\* int or float literal v.
Num(v) == Number(v, 1, 0)

\* x * y
Times(x, y) == Number(x.n * y.n, x.d * y.d, x.p + y.p)

\* math.radians(1.) and math.degrees(1.)
radians1 == Number(1, 180, 1)

degrees1 == Number(180, 1, -1)

\* A length in cm counted in 1/100 cm.
Hundredths(x) == (x.n * 100) \div x.d

\* An angle in rad that is a whole number of quarter turns, counted in
\* quarter turns (the model's records carry no other angles).
QuarterTurns(x) == IF x.n = 0 THEN 0 ELSE (2 * x.n) \div x.d

----------------------------------------------------------------------------
(* Units: Geometry.unit_convert_dict and GeometryROOT.convert *)

\* The tables unit_convert_dict starts from, whatever the base units.
DefaultTables ==
  [conv |-> [mm |-> Number(1, 10, 0), cm |-> Num(1), m |-> Num(100),
             inch |-> Number(254, 100, 0), inches |-> Number(254, 100, 0),
             rad |-> Num(1), mrad |-> Number(1, 1000, 0), deg |-> radians1],
   trans |-> [mm |-> "cm", cm |-> "cm", m |-> "cm", inch |-> "cm", inches |-> "cm",
              rad |-> "rad", mrad |-> "rad", deg |-> "rad"]]

\* The entries one branch of unit_convert_dict assigns for a length base.
LengthBase(u, mm, cm, m, inch) ==
  [conv |-> [mm |-> mm, cm |-> cm, m |-> m, inch |-> inch],
   trans |-> [mm |-> u, cm |-> u, m |-> u, inch |-> u]]

\* The entries one branch of unit_convert_dict assigns for an angle base.
AngleBase(u, rad, mrad, deg) ==
  [conv |-> [rad |-> rad, mrad |-> mrad, deg |-> deg],
   trans |-> [rad |-> u, mrad |-> u, deg |-> u]]

\* The entries assigned by the branch for base unit u; none for a u without
\* a branch.
BaseBranch(u) ==
  CASE u = "cm" -> LengthBase(u, Number(1, 10, 0), Num(1), Num(100), Number(254, 100, 0))
    [] u = "mm" -> LengthBase(u, Num(1), Num(10), Num(1000), Number(254, 10, 0))
    [] u = "m" -> LengthBase(u, Number(1, 1000, 0), Number(1, 100, 0), Num(1),
                             Number(254, 10000, 0))
    [] u = "inch" -> LengthBase(u, Number(10, 254, 0), Number(100, 254, 0),
                                Number(10000, 254, 0), Num(1))
    [] u = "rad" -> AngleBase(u, Num(1), Number(1, 1000, 0), radians1)
    [] u = "mrad" -> AngleBase(u, Num(1000), Num(1), Times(Num(1000), radians1))
    [] u = "deg" -> AngleBase(u, degrees1, Times(Number(1, 1000, 0), degrees1), Num(1))
    [] OTHER -> [conv |-> <<>>, trans |-> <<>>]

\* One turn of the loop over the base units: the branch for u, then the
\* 'counts' entries.
base_unit_step(t, u) ==
  [conv |-> ("counts" :> Num(1)) @@ BaseBranch(u).conv @@ t.conv,
   trans |-> ("counts" :> "counts") @@ BaseBranch(u).trans @@ t.trans]

RECURSIVE base_unit_loop(_, _)
base_unit_loop(t, base_unit) ==
  IF base_unit = <<>> THEN t
  ELSE base_unit_loop(base_unit_step(t, Head(base_unit)), Tail(base_unit))

\* unit_convert_dict(base_unit): base_unit is the list of unit words (a str
\* argument already split); the result is (conv_dict, trans_dict).
unit_convert_dict(base_unit) == base_unit_loop(DefaultTables, base_unit)

\* self._conv_dict of a GeometryROOT: unit_convert_dict("cm deg")[0].
self_conv_dict == unit_convert_dict(<<"cm", "deg">>).conv

\* The unit words of the tables, and two words that are in no table.
UnitWords ==
  {"mm", "cm", "m", "inch", "inches", "rad", "mrad", "deg", "counts", "furlong", ""}

\* unit_convert_dict(new_unit)[0] for each single word, computed once.
conv_dict_of == [u \in UnitWords |-> unit_convert_dict(<<u>>).conv]

\* The value returned or the exception raised by a call.
Returns(v) == [exc |-> "", val |-> v]

Raises(e) == [exc |-> e, val |-> None]

\* value * conv_dict[unit]
times_factor(value, unit, conv_dict) ==
  IF unit \in DOMAIN conv_dict THEN Returns(Times(value, conv_dict[unit]))
  ELSE Raises("KeyError")

\* A faulty convert: the unit of the value is taken to be the new unit.
convert_ignoring_unit(value, unit, new_unit) ==
  Returns(value)

\* convert(value, unit, new_unit): a unit that is no key of the table used
\* raises KeyError.
convert(value, unit, new_unit) ==
  times_factor(value, unit,
               IF new_unit = "cm" \/ new_unit = "deg" THEN self_conv_dict
               ELSE IF new_unit \in UnitWords THEN conv_dict_of[new_unit]
               ELSE unit_convert_dict(<<new_unit>>).conv)

\* Three results in order: the three values, or the first exception.
all3(c1, c2, c3) ==
  IF c1.exc # "" THEN c1
  ELSE IF c2.exc # "" THEN c2
  ELSE IF c3.exc # "" THEN c3
  ELSE Returns(<<c1.val, c2.val, c3.val>>)

\* The conversions of the three components of a record's position or
\* rotation, in order: the three values, or the first exception.
convert3(values, units, new_unit) ==
  all3(convert(Num(values[1]), units[1], new_unit),
       convert(Num(values[2]), units[2], new_unit),
       convert(Num(values[3]), units[3], new_unit))

----------------------------------------------------------------------------
(* Python strings of the text form *)

\* A str is a sequence of atoms: the separators "|", " " and "*", and words
\* (names, numerals, unit symbols), each word standing for its characters.
\* The strings of the model never put two words side by side.

Whitespace == {" ", "\n"}

\* s.lstrip(), s.rstrip() and s.strip() for whitespace.
RECURSIVE lstrip(_)
lstrip(s) == IF s # <<>> /\ Head(s) \in Whitespace THEN lstrip(Tail(s)) ELSE s

RECURSIVE rstrip(_)
rstrip(s) ==
  IF s # <<>> /\ s[Len(s)] \in Whitespace THEN rstrip(SubSeq(s, 1, Len(s) - 1)) ELSE s

strip(s) == rstrip(lstrip(s))

\* s.split(sep): the pieces between the occurrences of sep.
RECURSIVE split_on(_, _)
split_on(s, sep) ==
  IF \A k \in 1..Len(s) : s[k] # sep THEN <<s>>
  ELSE LET k == CHOOSE k \in 1..Len(s) : s[k] = sep /\ \A j \in 1..(k - 1) : s[j] # sep
       IN  <<SubSeq(s, 1, k - 1)>> \o split_on(SubSeq(s, k + 1, Len(s)), sep)

\* s.split(): the runs of atoms between whitespace.
split(s) ==
  SelectSeq(split_on([k \in 1..Len(s) |-> IF s[k] \in Whitespace THEN " " ELSE s[k]], " "),
            LAMBDA t : t # <<>>)

\* sep.join(list)
RECURSIVE join(_, _)
join(sep, list) ==
  IF list = <<>> THEN <<>>
  ELSE IF Len(list) = 1 THEN list[1]
  ELSE list[1] \o sep \o join(sep, Tail(list))

\* The word a str without separators consists of ("" for the empty str).
Word(s) == IF s = <<>> THEN "" ELSE s[1]

\* The numerals of the model and the numbers they denote.
Numerals == <<"0", "1", "2", "3", "5", "10", "90">>

Denoted == <<0, 1, 2, 3, 5, 10, 90>>

IsNumeral(w) == \E k \in 1..Len(Numerals) : Numerals[k] = w

ValueOf(w) == Denoted[CHOOSE k \in 1..Len(Numerals) : Numerals[k] = w]

\* float(s) and int(s): ValueError unless s is a numeral.
float(s) ==
  IF Len(s) = 1 /\ IsNumeral(s[1]) THEN Returns(Num(ValueOf(s[1])))
  ELSE Raises("ValueError")

int(s) ==
  IF Len(s) = 1 /\ IsNumeral(s[1]) THEN Returns(ValueOf(s[1]))
  ELSE Raises("ValueError")

\* str(x) of a number: its numeral ("nan" stands for the numerals the model
\* does not carry).
str(x) ==
  IF x.d = 1 /\ x.p = 0 /\ \E k \in 1..Len(Denoted) : Denoted[k] = x.n
  THEN <<Numerals[CHOOSE k \in 1..Len(Denoted) : Denoted[k] = x.n]>>
  ELSE <<"nan">>

\* The characters of the unit words, for indexing into a str.
Characters ==
  [mm |-> <<"m", "m">>, cm |-> <<"c", "m">>, m |-> <<"m">>,
   inch |-> <<"i", "n", "c", "h">>, rad |-> <<"r", "a", "d">>,
   mrad |-> <<"m", "r", "a", "d">>, deg |-> <<"d", "e", "g">>]

\* The characters of a str of unit words separated by single blanks.
RECURSIVE CharactersOf(_)
CharactersOf(words) ==
  IF words = <<>> THEN <<>>
  ELSE IF Len(words) = 1 THEN Characters[words[1]]
  ELSE Characters[words[1]] \o <<" ">> \o CharactersOf(Tail(words))

\* A units or base_unit argument: a list of words, or (str = TRUE) the str
\* holding these words.
StrUnit(words) == [str |-> TRUE, words |-> words]

ListUnit(words) == [str |-> FALSE, words |-> words]

\* base_unit[k], counting k from 0: element k of a list, character k of a str.
index(base_unit, k) ==
  LET items == IF base_unit.str THEN CharactersOf(base_unit.words) ELSE base_unit.words
  IN  IF k + 1 > Len(items) THEN Raises("IndexError") ELSE Returns(items[k + 1])

----------------------------------------------------------------------------
(* Geometry: parsing, validation and the text form *)

\* dims.append(ans); dims_units.append(base_unit[0]) for a token without
\* '*': ans is float(p), unit is base_unit[0].
append_bare(acc, ans, unit) ==
  IF ans.exc # "" THEN ans
  ELSE IF unit.exc # "" THEN unit
  ELSE Returns([dims |-> Append(acc.dims, ans.val), units |-> Append(acc.units, unit.val)])

\* The branches of parse_gemc_str for a token num*unit: num is float(num),
\* and 'inches' was renamed 'inch' when the conversion is forced.
append_tagged(acc, num, unit, force, tables) ==
  IF num.exc # "" THEN num
  ELSE IF ~force
  THEN Returns([dims |-> Append(acc.dims, num.val), units |-> Append(acc.units, unit)])
  ELSE IF unit \notin DOMAIN tables.conv THEN Raises("KeyError")
  ELSE Returns([dims |-> Append(acc.dims, Times(num.val, tables.conv[unit])),
                units |-> Append(acc.units, tables.trans[unit])])

\* num, unit = p.split('*'): ValueError unless there are two parts.
append_parts(acc, parts, force, tables) ==
  IF Len(parts) # 2 THEN Raises("ValueError")
  ELSE append_tagged(acc, float(parts[1]),
                     IF force /\ Word(parts[2]) = "inches" THEN "inch" ELSE Word(parts[2]),
                     force, tables)

\* One turn of the loop of parse_gemc_str over the tokens: the token p is
\* appended to the lists in acc, or raises.
parse_token(acc, p, base_unit, force, tables) ==
  IF \A k \in 1..Len(p) : p[k] # "*"
  THEN append_bare(acc, float(p), index(base_unit, 0))
  ELSE append_parts(acc, split_on(p, "*"), force, tables)

RECURSIVE parse_tokens(_, _, _, _, _)
RECURSIVE parse_rest(_, _, _, _, _)
\* The turns of the loop after the one that gave r.
parse_rest(r, tokens, base_unit, force, tables) ==
  IF r.exc # "" THEN r ELSE parse_tokens(r.val, tokens, base_unit, force, tables)

\* The loop of parse_gemc_str: for p in tmp_list.
parse_tokens(acc, tokens, base_unit, force, tables) ==
  IF tokens = <<>> THEN Returns(acc)
  ELSE parse_rest(parse_token(acc, Head(tokens), base_unit, force, tables),
                  Tail(tokens), base_unit, force, tables)

\* parse_gemc_str(string, base_unit) of an object whose force_unit_conversion
\* is force: (dims, dims_units).
parse_gemc_str(string, base_unit, force) ==
  parse_tokens([dims |-> <<>>, units |-> <<>>], split(string), base_unit, force,
               unit_convert_dict(base_unit.words))

\* The result of parse_gemc_rot_str from what parse_gemc_str gave and the
\* order found.
with_order(r, order) ==
  IF r.exc # "" THEN r
  ELSE Returns([dims |-> r.val.dims, units |-> r.val.units, order |-> order, warn |-> <<>>])

\* The branch of parse_gemc_rot_str for a single token: the zero rotation
\* in the unit base_unit[1], and the diagnostics printed.
single_entry(unit, token) ==
  IF unit.exc # "" THEN unit
  ELSE Returns([dims |-> <<Num(0), Num(0), Num(0)>>,
                units |-> <<unit.val, unit.val, unit.val>>,
                order |-> "",
                warn |-> IF token = <<"0">>
                         THEN <<"Rotation with only one entry">>
                         ELSE <<"Rotation with only one entry", "Setting rotation to zero">>])

\* parse_gemc_rot_str on tmp_list = string.split().
parse_rot_list(tmp_list, string, base_unit, force) ==
  IF tmp_list = <<>> THEN Raises("IndexError")
  ELSE IF tmp_list[1] = <<"ordered:">> /\ Len(tmp_list) < 2 THEN Raises("IndexError")
  ELSE IF tmp_list[1] # <<"ordered:">> /\ Len(tmp_list) = 1
  THEN single_entry(index(base_unit, 1), tmp_list[1])
  ELSE with_order(parse_gemc_str(IF tmp_list[1] = <<"ordered:">>
                                 THEN join(<<" ">>, SubSeq(tmp_list, 3, Len(tmp_list)))
                                 ELSE string,
                                 base_unit, force),
                  IF tmp_list[1] = <<"ordered:">> THEN Word(tmp_list[2]) ELSE "")

\* parse_gemc_rot_str(string, base_unit): (dims, dims_units, order); warn
\* tells the diagnostics printed.
parse_gemc_rot_str(string, base_unit, force) ==
  parse_rot_list(split(string), string, base_unit, force)

\* A pos, rot or dimensions argument: a str to parse, or a list of numbers.
StrArg(text) == [str |-> TRUE, val |-> text]

ListArg(list) == [str |-> FALSE, val |-> list]

\* self.pos, self.pos_units = what parse_gemc_str gave.
parsed_position(r) ==
  IF r.exc # "" THEN r
  ELSE Returns([dims |-> r.val.dims, units |-> ListUnit(r.val.units)])

\* set_position(pos, units) and set_dimensions(dims, units): the values and
\* their units.
set_position(pos, units, force) ==
  IF pos.str THEN parsed_position(parse_gemc_str(pos.val, units, force))
  ELSE Returns([dims |-> pos.val, units |-> units])

\* self.rot, self.rot_units, self.rot_order = what parse_gemc_rot_str gave.
parsed_rotation(r) ==
  IF r.exc # "" THEN r
  ELSE Returns([dims |-> r.val.dims, units |-> ListUnit(r.val.units),
                order |-> r.val.order, warn |-> r.val.warn])

\* set_rotation(rot, units, order)
set_rotation(rot, units, order, force) ==
  IF rot.str THEN parsed_rotation(parse_gemc_rot_str(rot.val, units, force))
  ELSE Returns([dims |-> rot.val, units |-> units, order |-> order, warn |-> <<>>])

\* The keyword arguments of Geometry(...) that the model varies; the others
\* keep these values.
Arguments(name, mother, pos, pos_units, rot, rot_units, rot_order, dimensions, dims_units) ==
  [name |-> name, mother |-> mother, description |-> <<>>,
   pos |-> pos, pos_units |-> pos_units,
   rot |-> rot, rot_units |-> rot_units, rot_order |-> rot_order,
   col |-> <<"000000">>, g4type |-> <<"Box">>,
   dimensions |-> dimensions, dims_units |-> dims_units,
   material |-> <<"Vacuum">>, magfield |-> <<"no">>,
   ncopy |-> 1, pmany |-> 1, exist |-> 1, visible |-> 1, style |-> 1,
   sensitivity |-> <<"no">>, hittype |-> <<>>, identity |-> <<>>]

\* The object a constructor call leaves behind (warn: what it printed).
Object(a, p, r, d, force) ==
  [name |-> a.name, mother |-> a.mother, description |-> a.description,
   pos |-> p.dims, pos_units |-> p.units,
   rot |-> r.dims, rot_units |-> r.units, rot_order |-> r.order,
   col |-> a.col, g4type |-> a.g4type,
   dimensions |-> d.dims, dims_units |-> d.units,
   material |-> a.material, magfield |-> a.magfield,
   ncopy |-> a.ncopy, pmany |-> a.pmany, exist |-> a.exist,
   visible |-> a.visible, style |-> a.style,
   sensitivity |-> a.sensitivity, hittype |-> a.hittype, identity |-> a.identity,
   force_unit_conversion |-> force, base_units |-> <<"cm", "rad">>,
   warn |-> r.warn]

\* The assignments of the str branch of __init__ in order: p, r and d are
\* what set_position, set_rotation and set_dimensions gave.
assign_keywords(a, p, r, d, force) ==
  IF p.exc # "" THEN p
  ELSE IF r.exc # "" THEN r
  ELSE IF d.exc # "" THEN d
  ELSE Returns(Object(a, p.val, r.val, d.val, force))

\* Geometry(name = ..., ...), the branch of __init__ for a str name: the
\* strings are parsed before force_unit_conversion is set.
init_from_keywords(a, force) ==
  assign_keywords(a, set_position(a.pos, a.pos_units, FALSE),
                  set_rotation(a.rot, a.rot_units, a.rot_order, FALSE),
                  set_position(a.dimensions, a.dims_units, FALSE), force)

\* name[k], counting k from 0, of the list handed to __init__ (the empty
\* str where the list has no such item and name[k] raises IndexError).
item(name, k) == IF k + 1 > Len(name) THEN <<>> ELSE name[k + 1]

\* self.ncopy = int(name[10]) to self.identity = name[17]: the first
\* exception of these statements from item k on, or Returns(None).
RECURSIVE assign_rest(_, _)
assign_rest(name, k) ==
  IF k + 1 > Len(name) THEN Raises("IndexError")
  ELSE IF k > 14 THEN (IF Len(name) < 18 THEN Raises("IndexError") ELSE Returns(None))
  ELSE IF int(name[k + 1]).exc # "" THEN Raises("ValueError")
  ELSE assign_rest(name, k + 1)

\* The assignments of the list branch of __init__ in order: p, r and d are
\* what parse_gemc_str and parse_gemc_rot_str gave for name[3], name[4] and
\* name[7], rest is the outcome of the statements after them.
assign_list(name, p, r, d, rest, force) ==
  IF Len(name) < 4 THEN Raises("IndexError")
  ELSE IF p.exc # "" THEN p
  ELSE IF Len(name) < 5 THEN Raises("IndexError")
  ELSE IF r.exc # "" THEN r
  ELSE IF Len(name) < 8 THEN Raises("IndexError")
  ELSE IF d.exc # "" THEN d
  ELSE IF rest.exc # "" THEN rest
  ELSE Returns(Object(
         [name |-> name[1], mother |-> name[2], description |-> name[3],
          col |-> name[6], g4type |-> name[7],
          material |-> name[9], magfield |-> name[10],
          ncopy |-> int(name[11]).val, pmany |-> int(name[12]).val,
          exist |-> int(name[13]).val, visible |-> int(name[14]).val,
          style |-> int(name[15]).val,
          sensitivity |-> name[16], hittype |-> name[17], identity |-> name[18]],
         [dims |-> p.val.dims, units |-> ListUnit(p.val.units)],
         [dims |-> r.val.dims, units |-> ListUnit(r.val.units),
          order |-> r.val.order, warn |-> r.val.warn],
         [dims |-> d.val.dims, units |-> ListUnit(d.val.units)],
         force))

\* geo.__init__(obs), the branch of __init__ for a list: the fields are taken
\* in order, on an object whose force_unit_conversion and base_units were
\* set by the engine.
init_from_list(name, force, base_units) ==
  assign_list(name,
              parse_gemc_str(item(name, 3), ListUnit(base_units), force),
              parse_gemc_rot_str(item(name, 4), ListUnit(base_units), force),
              parse_gemc_str(item(name, 7), ListUnit(base_units), force),
              assign_rest(name, 10), force)

\* The str of a unit word.
Atoms(w) == IF w = "" THEN <<>> ELSE <<w>>

\* The list make_string works on: [units] for a str.
UnitList(units) ==
  IF units.str THEN <<join(<<" ">>, [k \in 1..Len(units.words) |-> Atoms(units.words[k])])>>
  ELSE [k \in 1..Len(units.words) |-> Atoms(units.words[k])]

\* The branches of make_string on the list of units.
make_string_of(item_, list) ==
  IF Len(list) = Len(item_)
  THEN Returns(join(<<>>, [k \in 1..Len(item_) |->
                             str(item_[k]) \o <<"*">> \o list[k] \o <<" ">>]))
  ELSE IF item_ = <<>> THEN Returns(<<>>)
  ELSE IF list = <<>> THEN Raises("IndexError")
  ELSE Returns(join(<<>>, [k \in 1..Len(item_) |->
                             str(item_[k]) \o <<"*">> \o list[1] \o <<" ">>]))

\* make_string(item, units)
make_string(item_, units) == make_string_of(item_, UnitList(units))

\* validate(): 0, or the number of the first field found wrong.  Every
\* object of the model holds values of the types validate() asks for.
validate(self) ==
  IF Len(self.pos) # 3 THEN 4
  ELSE IF make_string(self.pos, self.pos_units).exc # "" THEN 43
  ELSE IF Len(self.rot) # 3 THEN 5
  ELSE IF make_string(self.rot, self.rot_units).exc # "" THEN 53
  ELSE IF make_string(self.dimensions, self.dims_units).exc # "" THEN 8
  ELSE IF self.exist \notin {0, 1} THEN 13
  ELSE IF self.visible \notin {0, 1} THEN 14
  ELSE IF self.style \notin {0, 1} THEN 15
  ELSE 0

\* The concatenations of __str__: pos, rot and dims are what make_string
\* gave for the position, the rotation and the dimensions.
concatenate(self, bar, pos, rot, dims) ==
  IF pos.exc # "" THEN pos
  ELSE IF rot.exc # "" THEN rot
  ELSE IF dims.exc # "" THEN dims
  ELSE Returns(
         self.name \o bar \o self.mother \o bar \o self.description \o bar
         \o pos.val \o bar
         \o (IF self.rot_order # "" THEN <<"ordered:", " ", self.rot_order, " ">> ELSE <<>>)
         \o rot.val \o bar
         \o self.col \o bar \o self.g4type \o bar \o dims.val \o bar
         \o self.material \o bar \o self.magfield \o bar
         \o str(Num(self.ncopy)) \o bar \o str(Num(self.pmany)) \o bar
         \o str(Num(self.exist)) \o bar \o str(Num(self.visible)) \o bar
         \o str(Num(self.style)) \o bar
         \o self.sensitivity \o bar \o self.hittype \o bar
         \o self.identity \o <<" ">>)

\* str(geo): the line of the text form.
Geometry_str(self) ==
  concatenate(self, <<" ", "|", " ">>,
              make_string(self.pos, self.pos_units),
              make_string(self.rot, self.rot_units),
              make_string(self.dimensions, self.dims_units))

\* obs = list(map(str.strip, line.split("|")))
observe(pieces) == [k \in 1..Len(pieces) |-> strip(pieces[k])]

RECURSIVE txt_read_geometry(_, _, _, _, _)
RECURSIVE read_line(_, _, _, _, _, _)
RECURSIVE add_line(_, _, _, _, _, _)
\* The end of a turn of the loop of txt_read_geometry: made is what
\* geo.__init__(obs) gave; validate() and add(geo), then the other lines.
add_line(store, log, made, lines, force, base_units) ==
  IF made.exc # "" THEN [exc |-> made.exc, val |-> store, log |-> log]
  ELSE txt_read_geometry(Append(store, made.val),
                         IF validate(made.val) # 0 THEN Append(log, validate(made.val))
                         ELSE log,
                         lines, force, base_units)

\* A turn of the loop of txt_read_geometry on the fields obs of a line.
read_line(store, log, obs, lines, force, base_units) ==
  IF Len(obs) < 2 THEN txt_read_geometry(store, log, lines, force, base_units)
  ELSE add_line(store, log, init_from_list(obs, force, base_units), lines, force,
                base_units)

\* txt_read_geometry(mfile) on an engine whose store is store: the store
\* afterwards, the exception that ended the call, and the validation errors
\* printed.
txt_read_geometry(store, log, lines, force, base_units) ==
  IF lines = <<>> THEN [exc |-> "", val |-> store, log |-> log]
  ELSE read_line(store, log, observe(split_on(Head(lines), "|")), Tail(lines), force,
                 base_units)

RECURSIVE txt_write_geometry(_, _)
RECURSIVE write_line(_, _, _)
\* ff.write(str(geo) + "\n") with line what str(geo) gave, then the other
\* records.
write_line(written, line, store) ==
  IF line.exc # "" THEN [exc |-> line.exc, val |-> written]
  ELSE txt_write_geometry(Append(written, line.val \o <<"\n">>), store)

\* txt_write_geometry(): the lines written, and the exception that ended the
\* call.
txt_write_geometry(written, store) ==
  IF store = <<>> THEN [exc |-> "", val |-> written]
  ELSE write_line(written, Geometry_str(Head(store)), Tail(store))

----------------------------------------------------------------------------
(* Rotation: 3x3 matrices, as tuples of rows *)

\* Rotation(): the identity.
Rotation == <<<<1, 0, 0>>, <<0, 1, 0>>, <<0, 0, 1>>>>

\* math.cos and math.sin of a whole number of quarter turns.
cos(q) == CASE q % 4 = 0 -> 1 [] q % 4 = 2 -> -1 [] OTHER -> 0

sin(q) == CASE q % 4 = 1 -> 1 [] q % 4 = 3 -> -1 [] OTHER -> 0

\* Row i of a times column j of b.
Dot(a, b, i, j) == a[i][1] * b[1][j] + a[i][2] * b[2][j] + a[i][3] * b[3][j]

\* a * b for two matrices.
MatMul(a, b) ==
  <<<<Dot(a, b, 1, 1), Dot(a, b, 1, 2), Dot(a, b, 1, 3)>>,
    <<Dot(a, b, 2, 1), Dot(a, b, 2, 2), Dot(a, b, 2, 3)>>,
    <<Dot(a, b, 3, 1), Dot(a, b, 3, 2), Dot(a, b, 3, 3)>>>>

\* a * v for a matrix and a column vector.
MatVec(a, v) ==
  <<a[1][1] * v[1] + a[1][2] * v[2] + a[1][3] * v[3],
    a[2][1] * v[1] + a[2][2] * v[2] + a[2][3] * v[3],
    a[3][1] * v[1] + a[3][2] * v[2] + a[3][3] * v[3]>>

\* rot.I: the inverse of a rotation matrix is its transpose.
Inverse(a) ==
  <<<<a[1][1], a[2][1], a[3][1]>>,
    <<a[1][2], a[2][2], a[3][2]>>,
    <<a[1][3], a[2][3], a[3][3]>>>>

\* The elementary rotation by q quarter turns about an axis.
Elementary(axis, q) ==
  CASE axis = "x" -> <<<<1, 0, 0>>, <<0, cos(q), -sin(q)>>, <<0, sin(q), cos(q)>>>>
    [] axis = "y" -> <<<<cos(q), 0, sin(q)>>, <<0, 1, 0>>, <<-sin(q), 0, cos(q)>>>>
    [] axis = "z" -> <<<<cos(q), -sin(q), 0>>, <<sin(q), cos(q), 0>>, <<0, 0, 1>>>>

\* rot.rotateX(angle), rot.rotateY(angle), rot.rotateZ(angle): the
\* elementary rotation is applied after rot (by angle 0 it is the identity).
rotate(rot, axis, angle) ==
  IF angle.n = 0 THEN rot ELSE MatMul(Elementary(axis, QuarterTurns(angle)), rot)

----------------------------------------------------------------------------
(* Transforms of a record *)

\* Vector(x, y, z) of three lengths in cm, carried in 1/100 cm.
Vector(c) ==
  IF c.exc # "" THEN c
  ELSE Returns(<<Hundredths(c.val[1]), Hundredths(c.val[2]), Hundredths(c.val[3])>>)

\* compute_trans_vector: the position, component-wise in cm (the Vector is
\* carried in 1/100 cm).
compute_trans_vector(g) == Vector(convert3(g.pos, g.pos_units, "cm"))

\* The three rotateX/Y/Z calls on Rotation(), about the axes in order.
rotate3(c, axes) ==
  IF c.exc # "" THEN c
  ELSE Returns(rotate(rotate(rotate(Rotation, axes[1], c.val[1]),
                             axes[2], c.val[2]), axes[3], c.val[3]))

\* Rotation() followed by rotateX/Y/Z calls, in the order of the tag.
RotationOf(g, axes) == rotate3(convert3(g.rot, g.rot_units, "rad"), axes)

\* The axes of the rotateX/Y/Z calls of each branch of
\* compute_trans_rotation, by order tag ("" is handled as "xyz").
Axes ==
  [xyz |-> <<"x", "y", "z">>, zxy |-> <<"z", "x", "y">>, yxz |-> <<"y", "x", "z">>,
   zyx |-> <<"z", "y", "x">>, yzx |-> <<"y", "z", "x">>]

\* compute_trans_rotation; the order tags without a branch raise NameError.
compute_trans_rotation(g) ==
  IF g.rot_order # "" /\ g.rot_order \notin DOMAIN Axes THEN Raises("NameError")
  ELSE RotationOf(g, Axes[IF g.rot_order = "" THEN "xyz" ELSE g.rot_order])

----------------------------------------------------------------------------
(* Materials *)

\* A faulty find_material: "Component" is a material like any other.
find_material_no_component(material) ==
  IF material \in {"Vacuum", "Air", "Aluminum", "Scintillator"} THEN material
  ELSE "Aluminum"

\* find_material: 0 for "Component", a medium otherwise (unknown materials
\* are replaced by Aluminum).
find_material(material) ==
  IF material = "Component" THEN "0"
  ELSE IF material \in {"Vacuum", "Air", "Aluminum", "Scintillator"} THEN material
  ELSE "Aluminum"

----------------------------------------------------------------------------
(* The builder: GeometryROOT *)

\* The builder's tables, the store it walks and the exception in flight.
Builder ==
  [geo |-> geo, shapes |-> shapes, volumes |-> volumes,
   translations |-> translations, nodes |-> nodes, reports |-> <<>>,
   exc |-> "", nplace |-> 0]

Raise(b, e) == [b EXCEPT !.exc = e]

Report(b, r) == [b EXCEPT !.reports = Append(@, r)]

\* create_root_volume: the box named "root" becomes the top volume.
create_root_volume(b) == [b EXCEPT !.volumes = (top :> 0) @@ @]

\* compute_combi_trans(name, vector, rotation): the TGeoCombiTrans.
compute_combi_trans(vector, rotation) ==
  [vec |-> vector, rot |-> rotation]

\* A faulty operand transform: the '@' marker is ignored.
operand_transrot_absolute(special, t1, t2) ==
  compute_combi_trans(t2[1], t2[2])

\* A faulty operand transform: every Operation is handled as if it had the
\* '@' marker.
operand_transrot_relative(special, t1, t2) ==
  compute_combi_trans(MatVec(t1[2], <<t2[1][1] - t1[1][1], t2[1][2] - t1[1][2],
                                      t2[1][3] - t1[1][3]>>),
                      MatMul(t2[2], Inverse(t1[2])))

\* The transform of the second operand of an Operation: with the '@' marker
\* net_trans = trans2 - trans1, net_trans_rot = rot1 * net_trans and
\* net_rot = rot2 * rot1.I; without it the operand's own memoized transform.
operand_transrot(special, t1, t2) ==
  IF special = "@"
  THEN compute_combi_trans(MatVec(t1[2], <<t2[1][1] - t1[1][1], t2[1][2] - t1[1][2],
                                           t2[1][3] - t1[1][3]>>),
                           MatMul(t2[2], Inverse(t1[2])))
  ELSE compute_combi_trans(t2[1], t2[2])

\* Shape types whose branch turns a str dims_units into a list.
StrUnitsToList ==
  {"Box", "Tube", "Trd", "G4GenericTrap", "EllipticalTube", "Eltu", "Paraboloid",
   "Ellipsoid"}

\* The shape object of a primitive record.
primitive_shape(g) ==
  [type |-> g.g4type[1], name |-> g.name, shape1 |-> "", shape2 |-> "",
   oper |-> "", transrot2 |-> compute_combi_trans(<<0, 0, 0>>, Rotation)]

\* The TGeoCompositeShape of an Operation record over two built operands:
\* TGeoSubtraction, TGeoUnion or TGeoIntersection(shape1, shape2, transrot1,
\* transrot2), where transrot1 = 0 stands for no transform.
composite_shape(b, g) ==
  [type |-> "Operation:", name |-> g.name,
   shape1 |-> b.shapes[g.g4type[3]].name, shape2 |-> b.shapes[g.g4type[5]].name,
   oper |-> g.g4type[4], transrot1 |-> 0,
   transrot2 |-> operand_transrot(g.g4type[2], b.translations[g.g4type[3]],
                                  b.translations[g.g4type[5]])]

\* A faulty store_shape: the shape is made but not put in the table.
store_no_shape(b, g, shape) == b

\* self._shapes[geo_vol.name] = newgeo_shape
store_shape(b, g, shape) == [b EXCEPT !.shapes = (g.name :> shape) @@ @]

RECURSIVE build_volumes(_, _, _)
RECURSIVE build_children(_, _, _, _)
RECURSIVE place_volume(_, _, _, _)
RECURSIVE get_volume_shape(_, _, _)
RECURSIVE place_operand(_, _, _)

\* The Operation branch's on-demand build of one operand: when its name is
\* not in the shape table, look the record up and place it in its own mother.
place_operand(b, shape_name, d) ==
  IF shape_name \in DOMAIN b.shapes THEN b
  ELSE place_volume(b, find_volume(b.geo, shape_name), None, d + 1)

\* get_volume_shape(geo_vol) in frame d.
get_volume_shape(b, i, d) ==
  IF d > RecursionLimit THEN Raise(b, "RecursionError")
  ELSE
  LET g == b.geo[i]
      t == g.g4type[1]
  IN  CASE t \in Primitive ->
             IF g.dims_units_str
             THEN IF t \in StrUnitsToList
                  THEN store_shape([b EXCEPT !.geo[i].dims_units_str = FALSE], g,
                                   primitive_shape(g))
                  ELSE IF t \in {"Polycone", "Pgon", "Polyhedra"}
                       THEN Raise(b, "NameError")
                       ELSE Raise(b, "IndexError")
             ELSE store_shape(b, g, primitive_shape(g))
        [] t = "Operation:" ->
             LET b1 == place_operand(b, g.g4type[3], d)
             IN  IF b1.exc # "" THEN b1
                 ELSE LET b2 == place_operand(b1, g.g4type[5], d)
                      IN  IF b2.exc # "" THEN b2
                          ELSE IF g.g4type[3] \notin DOMAIN b2.shapes
                                  \/ g.g4type[5] \notin DOMAIN b2.shapes
                                  \/ g.g4type[3] \notin DOMAIN b2.translations
                                  \/ g.g4type[5] \notin DOMAIN b2.translations
                               THEN Raise(b2, "KeyError")
                               ELSE store_shape(b2, g, composite_shape(b2, g))
        [] t = "CopyOf" ->
             IF g.g4type[2] \notin DOMAIN b.shapes THEN Raise(b, "KeyError")
             ELSE store_shape(b, g, b.shapes[g.g4type[2]])
        [] OTHER -> Raise(b, "NameError")

\* mother_vol.AddNode(newgeo, 1, transrot) and self._volumes[name] = newgeo
add_node(b, i, mother, mother_vol, transrot) ==
  [b EXCEPT !.volumes = (b.geo[i].name :> i) @@ @,
            !.nodes = Append(@, [vol |-> i, name |-> b.geo[i].name,
                                 mother |-> mother, mother_vol |-> mother_vol,
                                 transrot |-> transrot])]

\* place_volume from the transform on: translate and rotate_ are what
\* compute_trans_vector and compute_trans_rotation gave for record i; the
\* rotation is looked at after the translation.
place_transformed(b0, i, mother, translate, rotate_, d) ==
  LET g == b0.geo[i]
      medium == find_material(g.material)
      b1 == [b0 EXCEPT !.geo[i].pos_units_str = FALSE]
  IN  IF translate.exc # "" THEN Raise(b1, translate.exc)
      ELSE
      LET b2 == [b1 EXCEPT !.geo[i].rot_units_str = FALSE]
      IN  IF rotate_.exc # "" THEN Raise(b2, rotate_.exc)
          ELSE
          LET b3 == [b2 EXCEPT !.translations =
                                  (g.name :> <<translate.val, rotate_.val>>) @@ @]
              transrot == compute_combi_trans(translate.val, rotate_.val)
          IN  IF g.exist = 0 THEN b3
              ELSE LET b4 == get_volume_shape(b3, i, d + 1)
                   IN  IF b4.exc # "" THEN b4
                       ELSE IF medium = "0" THEN b4
                       ELSE add_node(b4, i, mother, b0.volumes[mother], transrot)

\* place_volume(geo_vol, mother) in frame d; i = 0 is a geo_vol that is no
\* Geometry (None).
place_volume(b, i, mother_arg, d) ==
  IF d > RecursionLimit THEN Raise(b, "RecursionError")
  ELSE
  LET b0 == [b EXCEPT !.nplace = @ + 1]
  IN  IF i = 0 THEN Report(b0, <<"not a Geometry", "", "">>)
      ELSE
      LET g == b0.geo[i]
          mother == IF mother_arg = None THEN g.mother ELSE mother_arg
      IN  IF mother \notin DOMAIN b0.volumes
          THEN Report(b0, <<"mother not found", mother, g.name>>)
          ELSE IF g.name \in DOMAIN b0.shapes THEN b0
          ELSE
          place_transformed(b0, i, mother, compute_trans_vector(g),
                            compute_trans_rotation(g), d)

\* A faulty loop of build_volumes: every child found is placed before the
\* children of any of them are looked for.
build_children_siblings_first(b, objl, mother, d) ==
  IF objl = <<>> THEN b
  ELSE LET b1 == place_volume(b, Head(objl), mother, d + 1)
       IN  IF b1.exc # "" THEN b1
           ELSE LET b2 == build_children(b1, Tail(objl), mother, d)
                IN  IF b2.exc # "" THEN b2
                    ELSE build_volumes(b2, b2.geo[Head(objl)].name, d + 1)

\* The loop of build_volumes over the children found, in frame d.
build_children(b, objl, mother, d) ==
  IF objl = <<>> THEN b
  ELSE LET b1 == place_volume(b, Head(objl), mother, d + 1)
       IN  IF b1.exc # "" THEN b1
           ELSE LET b2 == build_volumes(b1, b1.geo[Head(objl)].name, d + 1)
                IN  IF b2.exc # "" THEN b2
                    ELSE build_children(b2, Tail(objl), mother, d)

\* build_volumes(geo, mother) in frame d.
build_volumes(b, mother, d) ==
  IF d > RecursionLimit THEN Raise(b, "RecursionError")
  ELSE
  LET b1 == IF mother \in DOMAIN b.volumes THEN b
            ELSE IF mother = top THEN create_root_volume(b)
            ELSE LET root_vol == find_volume(b.geo, mother)
                 IN  IF root_vol = 0
                     THEN Raise(Report(b, <<"cannot place root volume", mother, "">>),
                                "NameError")
                     ELSE place_volume(IF top \in DOMAIN b.volumes THEN b
                                       ELSE create_root_volume(b),
                                       root_vol, top, d + 1)
  IN  IF b1.exc # "" THEN b1
      ELSE LET objl == find_children(b1.geo, mother)
           IN  IF objl.none THEN b1
               ELSE build_children(b1, objl.found, mother, d)

----------------------------------------------------------------------------
(* Stores *)

\* The record at position i of a store of at most n records: its name, its
\* primitive type, its position and the operands it may name follow from i;
\* its mother and its kind are chosen.
Next1(i, n) == (i % n) + 1

Prev1(i, n) == IF i = 1 THEN n ELSE i - 1

PrimAt(i) == IF i % 2 = 1 THEN "Box" ELSE "Sphere"

PosAt(i) ==
  CASE i = 1 -> [pos |-> <<20, 0, 0>>, units |-> <<"mm", "mm", "mm">>, str |-> TRUE]
    [] i = 2 -> [pos |-> <<0, 0, 5>>, units |-> <<"cm", "cm", "cm">>, str |-> FALSE]
    [] i = 3 -> [pos |-> <<10, 0, 2>>, units |-> <<"mm", "cm", "m">>, str |-> FALSE]
    [] OTHER -> [pos |-> <<i, i, i>>, units |-> <<"cm", "cm", "cm">>, str |-> TRUE]

\* prim: a primitive volume; comp: a primitive of material "Component";
\* ghost: a primitive with exist=0; op: an Operation on the next and the
\* previous record; copy: a CopyOf the next record; bad: an unknown shape type.
Kinds == {"prim", "comp", "ghost", "op", "copy", "bad"}

G4Type(i, n, kind) ==
  CASE kind = "op" -> <<"Operation:", "", NameAt[Next1(i, n)], "+", NameAt[Prev1(i, n)]>>
    [] kind = "copy" -> <<"CopyOf", NameAt[Next1(i, n)]>>
    [] kind = "bad" -> <<"Blob">>
    [] OTHER -> <<PrimAt(i)>>

\* Geometry(name=..., mother=..., pos=..., g4type=..., material=..., exist=...)
Geometry(i, n, mother, kind) ==
  [name |-> NameAt[i], mother |-> mother,
   pos |-> PosAt(i).pos, pos_units |-> PosAt(i).units, pos_units_str |-> PosAt(i).str,
   rot |-> <<0, 0, 0>>, rot_units |-> <<"rad", "rad", "rad">>, rot_units_str |-> TRUE,
   rot_order |-> "",
   g4type |-> G4Type(i, n, kind), dims_units_str |-> (PrimAt(i) = "Box"),
   material |-> IF kind = "comp" THEN "Component" ELSE "Aluminum",
   exist |-> IF kind = "ghost" THEN 0 ELSE 1]

\* The top volume or the previous record (for the first record the last one,
\* which closes a cycle of mothers or is absent from a shorter store).
AnyMother(i, n) == {top, NameAt[Prev1(i, n)]}

TopMother(i, n) == {top}

\* The stores of len records out of a family of at most n, the mother of
\* record i taken from AnyMother(i, n) when nested and from TopMother(i, n)
\* otherwise, and the kinds from K.
RECURSIVE StoresOfLen(_, _, _, _)
StoresOfLen(len, n, nested, K) ==
  IF len = 0 THEN {<<>>}
  ELSE {Append(s, Geometry(len, n, m, k)) :
          s \in StoresOfLen(len - 1, n, nested, K),
          m \in (IF nested THEN AnyMother(len, n) ELSE TopMother(len, n)),
          k \in K}

Stores ==
  UNION ({StoresOfLen(len, MaxStore, TRUE, Kinds) : len \in 1..MaxStore}
         \cup {StoresOfLen(len, MaxWide, FALSE, Kinds) : len \in 1..MaxWide}
         \cup {StoresOfLen(len, MaxWide, TRUE, {"prim", "comp", "ghost"}) :
                 len \in 1..MaxWide})

\* Mother names a caller may start a build at.
Roots(g) == {top, Nowhere} \cup {g[i].name : i \in 1..Len(g)}

\* Stores of two operands under the top volume, Box A at (2, 0, 0) cm and
\* Sphere B at (5, 0, 0) cm, each turned about x and y, and the Operation
\* "A - B" on them, with or without the '@' marker.
Turns == {<<90 * x, 90 * y, 0>> : x, y \in 0..MaxTurns}

Operand(i, pos, rot, order, kind) ==
  [Geometry(i, 3, top, kind) EXCEPT
     !.pos = pos, !.pos_units = <<"cm", "cm", "cm">>, !.pos_units_str = TRUE,
     !.rot = rot, !.rot_units = <<"deg", "deg", "deg">>, !.rot_order = order]

RelStores ==
  {<<Operand(1, <<2, 0, 0>>, ra, oa, kind), Operand(2, <<5, 0, 0>>, rb, ob, kind),
     [Geometry(3, 3, top, "op") EXCEPT
        !.g4type = <<"Operation:", special, NameAt[1], "-", NameAt[2]>>]>> :
     ra \in Turns, rb \in Turns, oa \in {"", "zyx"}, ob \in {"", "zyx"},
     special \in {"", "@"}, kind \in {"prim", "comp"}}

----------------------------------------------------------------------------
(* The state machine *)

\* GeometryROOT() with no engine: empty tables.  The store is any store the
\* engine can hold after its records were added.
Init ==
  /\ geo \in Stores
  /\ shapes = <<>>
  /\ volumes = <<>>
  /\ translations = <<>>
  /\ nodes = <<>>
  /\ reports = <<>>
  /\ exc = ""
  /\ nplace = 0
  /\ call = <<"", "", 0>>
  /\ fresh = TRUE
  /\ ret = None
  /\ lists = DefaultLists

\* The state after a public call that ended in builder state b.
Returned(b, c) ==
  /\ geo' = b.geo
  /\ shapes' = b.shapes
  /\ volumes' = b.volumes
  /\ translations' = b.translations
  /\ nodes' = b.nodes
  /\ reports' = b.reports
  /\ exc' = b.exc
  /\ nplace' = b.nplace
  /\ call' = c
  /\ fresh' = (call[1] = "")
  /\ ret' = None
  /\ lists' = lists

\* A caller's build_volumes(geo, mother).
BuildVolumes(mother) ==
  Returned(build_volumes(Builder, mother, 1), <<"build_volumes", mother, 0>>)

\* A caller's place_volume(geo[i]): the record is placed in its own mother.
PlaceVolume(i) ==
  Returned(place_volume(Builder, i, None, 1), <<"place_volume", None, i>>)

Next ==
  \/ \E mother \in Roots(geo) : BuildVolumes(mother)
  \/ \E i \in 1..Len(geo) : PlaceVolume(i)

Spec == Init /\ [][Next]_vars

\* The builder on the stores of operations with turned operands.
InitRel ==
  /\ geo \in RelStores
  /\ shapes = <<>>
  /\ volumes = <<>>
  /\ translations = <<>>
  /\ nodes = <<>>
  /\ reports = <<>>
  /\ exc = ""
  /\ nplace = 0
  /\ call = <<"", "", 0>>
  /\ fresh = TRUE
  /\ ret = None
  /\ lists = DefaultLists

SpecRel == InitRel /\ [][Next]_vars

\* The builder on the stores of turned volumes: a Box A under the top volume,
\* turned about three axes in the order of its tag, alone or with a Sphere B
\* inside it.  The order tags are the empty tag, the six permutations of
\* xyz and a tag that is no permutation.
Orders == {"", "xyz", "xzy", "yxz", "yzx", "zxy", "zyx", "xyx"}

AllTurns == {<<90 * x, 90 * y, 90 * z>> : x, y, z \in 0..MaxTurns}

OrdStores ==
  {<<Operand(1, <<2, 0, 0>>, rot, order, "prim")>> : rot \in AllTurns, order \in Orders}
  \cup
  {<<Operand(1, <<2, 0, 0>>, rot, order, "prim"), Geometry(2, 3, "A", "prim")>> :
     rot \in AllTurns, order \in Orders}

InitOrd ==
  /\ geo \in OrdStores
  /\ shapes = <<>>
  /\ volumes = <<>>
  /\ translations = <<>>
  /\ nodes = <<>>
  /\ reports = <<>>
  /\ exc = ""
  /\ nplace = 0
  /\ call = <<"", "", 0>>
  /\ fresh = TRUE
  /\ ret = None
  /\ lists = DefaultLists

SpecOrd == InitOrd /\ [][Next]_vars

\* The builder on stores that may hold several records of one name (add
\* makes no uniqueness check): three records, each a primitive or an
\* Operation, under the top volume or inside the record named before it,
\* named freely.
DupNames == {"A", "C"}

DupStores ==
  {<<[Geometry(1, 3, m1, k1) EXCEPT !.name = n1],
     [Geometry(2, 3, m2, k2) EXCEPT !.name = n2],
     [Geometry(3, 3, m3, k3) EXCEPT !.name = n3]>> :
     n1 \in DupNames, n2 \in DupNames, n3 \in DupNames,
     m1 \in AnyMother(1, 3), m2 \in AnyMother(2, 3), m3 \in AnyMother(3, 3),
     k1 \in {"prim", "op"}, k2 \in {"prim", "op"}, k3 \in {"prim", "op"}}

InitDup ==
  /\ geo \in DupStores
  /\ shapes = <<>>
  /\ volumes = <<>>
  /\ translations = <<>>
  /\ nodes = <<>>
  /\ reports = <<>>
  /\ exc = ""
  /\ nplace = 0
  /\ call = <<"", "", 0>>
  /\ fresh = TRUE
  /\ ret = None
  /\ lists = DefaultLists

SpecDup == InitDup /\ [][Next]_vars

\* The builder handed one engine after the other: the stores of primitive
\* volumes, and the same stores with every record moved to another position.
Moved(g) ==
  [i \in 1..Len(g) |->
     [g[i] EXCEPT !.pos = <<7, 0, i>>, !.pos_units = <<"cm", "cm", "cm">>,
                  !.pos_units_str = FALSE]]

Engines ==
  LET plain == UNION {StoresOfLen(len, MaxStore, TRUE, {"prim"}) :
                        len \in 1..MaxStore}
  IN  plain \cup {Moved(g) : g \in plain}

\* A caller's build_volumes(engine, mother) with the engine at hand or with
\* another one: the builder keeps its tables and walks the store of engine.
BuildVolumesOf(engine, mother) ==
  Returned(build_volumes([Builder EXCEPT !.geo = engine], mother, 1),
           <<"build_volumes", mother, 0>>)

NextTwo ==
  \E engine \in Engines : \E mother \in Roots(engine) : BuildVolumesOf(engine, mother)

InitTwo ==
  /\ geo \in Engines
  /\ shapes = <<>>
  /\ volumes = <<>>
  /\ translations = <<>>
  /\ nodes = <<>>
  /\ reports = <<>>
  /\ exc = ""
  /\ nplace = 0
  /\ call = <<"", "", 0>>
  /\ fresh = TRUE
  /\ ret = None
  /\ lists = DefaultLists

SpecTwo == InitTwo /\ [][NextTwo]_vars

----------------------------------------------------------------------------
(* The engine and its text files *)

\* Largest number of records in a store of the text form, and of lines in a
\* file read.
MaxLines == 2

\* The positions, rotations and dimensions of the records added by
\* Geometry(name = ..., ...): lists with units.
Position == ListArg(<<Num(1), Num(2), Num(5)>>)

NoTurn == ListArg(<<Num(0), Num(90), Num(0)>>)

\* The units of a list of three: one str for all, one word each, or a list
\* of two.
UnitChoices(word, other) ==
  {StrUnit(<<word>>), ListUnit(<<word, other, word>>), ListUnit(<<word, other>>)}

\* The names of the records: plain words, a name with a bar inside, a name
\* with a blank in front.
TextNames == {<<"A">>, <<"B">>, <<"A", "|", "B">>, <<" ", "A">>}

\* The keyword arguments of the records added: records under the top that
\* differ in their name, and records under A that differ in their units and
\* rotation order.
Keywords ==
  {Arguments(name, <<"root">>, Position, StrUnit(<<"cm">>), NoTurn, StrUnit(<<"deg">>), "",
             StrArg(<<>>), StrUnit(<<"cm">>)) : name \in TextNames}
  \cup
  {Arguments(<<"B">>, <<"A">>, Position, pos_units, NoTurn, StrUnit(<<"deg">>), rot_order,
             StrArg(<<>>), StrUnit(<<"cm">>)) :
     pos_units \in UnitChoices("cm", "mm"), rot_order \in {"", "zyx"}}

\* The fields of a line of the text form.
Fields(name, mother, pos, rot, dims) ==
  <<name, mother, <<"a", " ", "box">>, pos, rot, <<"ff0000">>, <<"Box">>, dims,
    <<"Vacuum">>, <<"no">>, <<"1">>, <<"1">>, <<"1">>, <<"1">>, <<"1">>,
    <<"no">>, <<>>, <<>>>>

\* The line of these fields, as in a file.
Line(fields) == join(<<" ", "|", " ">>, fields) \o <<"\n">>

\* The lines of the files read: well formed ones, lines cut short, lines
\* with a malformed number, a blank line.
Lines ==
  LET pos == <<"1", "*", "cm", " ", "2", "*", "mm", " ", "5", "*", "cm">>
      rot == <<"0", "*", "deg", " ", "90", "*", "deg", " ", "0", "*", "deg">>
      dims == <<"10", "*", "cm", " ", "10", "*", "cm", " ", "10", "*", "cm">>
      good == Fields(<<"A">>, <<"root">>, pos, rot, dims)
  IN  {Line(good),
       Line(Fields(<<"B">>, <<"A">>, pos, <<"ordered:", " ", "zyx", " ">> \o rot, dims)),
       Line(Fields(<<"B">>, <<"root">>, <<"x", "*", "cm", " ", "2", "*", "mm", " ", "5", "*", "cm">>, rot, dims)),
       Line(Fields(<<"B">>, <<"root">>, <<"1", "*", "cm", " ", "2", "*", "mm">>, rot, dims)),
       Line(SubSeq(good, 1, 2)),
       Line(SubSeq(good, 1, 10)),
       Line(<<<<"A">>>>),
       <<"\n">>}

RECURSIVE SeqsUpTo(_, _)
SeqsUpTo(S, n) ==
  IF n = 0 THEN {<<>>}
  ELSE LET shorter == SeqsUpTo(S, n - 1)
       IN  shorter \cup {Append(q, x) : q \in shorter, x \in S}

\* The mothers asked of find_children.
Mothers == {<<"root">>, <<"A">>, <<"nowhere">>}

\* GeometryEngine(): an empty store.
InitText ==
  /\ geo = <<>>
  /\ shapes = <<>>
  /\ volumes = <<>>
  /\ translations = <<>>
  /\ nodes = <<>>
  /\ reports = <<>>
  /\ exc = ""
  /\ nplace = 0
  /\ call = <<"", "", 0>>
  /\ fresh = TRUE
  /\ ret = None
  /\ lists = DefaultLists

\* The state after a call on the engine or on a Geometry: the builder is
\* not touched.
Called(c, store, r, e, printed) ==
  /\ geo' = store
  /\ call' = c
  /\ ret' = r
  /\ exc' = e
  /\ reports' = printed
  /\ fresh' = (call[1] = "")
  /\ UNCHANGED <<shapes, volumes, translations, nodes, nplace, lists>>

\* The state after a call that returned r or raised, and printed nothing.
Outcome(c, r) == Called(c, geo, r.val, r.exc, <<>>)

\* self._Geometry.append(made), unless the constructor raised.
Appended(c, made) ==
  Called(c, IF made.exc = "" THEN Append(geo, made.val) ELSE geo, None, made.exc, <<>>)

\* engine.add(Geometry(name = ..., ...))
Add(a) ==
  /\ Len(geo) < MaxLines
  /\ Appended(<<"add", a, Len(geo)>>, init_from_keywords(a, FALSE))

\* The state after txt_read_geometry left r on this engine, and on a new
\* engine.
ReadInto(c, r) == Called(c, r.val, None, r.exc, r.log)

ReadApart(c, r) == Called(c, geo, r.val, r.exc, r.log)

\* engine.txt_read_geometry(mfile) on the lines of mfile.
TxtReadGeometry(lines) ==
  /\ Len(geo) + Len(lines) <= MaxLines
  /\ ReadInto(<<"txt_read_geometry", lines, Len(geo)>>,
              txt_read_geometry(geo, <<>>, lines, FALSE, <<"cm", "rad">>))

\* engine.txt_write_geometry(): ret holds the lines of the file written.
TxtWriteGeometry ==
  Outcome(<<"txt_write_geometry", None, Len(geo)>>, txt_write_geometry(<<>>, geo))

\* GeometryEngine().txt_read_geometry(mfile) on the file just written: ret
\* holds the store of the new engine.
TxtReadBack ==
  /\ call[1] = "txt_write_geometry"
  /\ exc = ""
  /\ ReadApart(<<"txt_read_back", ret, Len(geo)>>,
               txt_read_geometry(<<>>, <<>>, ret, FALSE, <<"cm", "rad">>))

\* engine.find_children(name)
FindChildren(name) ==
  Called(<<"find_children", name, Len(geo)>>, geo, find_children(geo, name), "", <<>>)

NextText ==
  \/ \E a \in Keywords : Add(a)
  \/ \E lines \in SeqsUpTo(Lines, MaxLines) : TxtReadGeometry(lines)
  \/ TxtWriteGeometry
  \/ TxtReadBack
  \/ \E name \in Mothers : FindChildren(name)

SpecText == InitText /\ [][NextText]_vars

\* The str returned for an index out of bounds.
OutOfBounds(item_) == <<"Geometry Object out of bounds for index", item_>>

\* self._Geometry[item] for an item that is not negative.
list_item(list, item_) ==
  IF item_ + 1 > Len(list) THEN Raises("IndexError") ELSE Returns(list[item_ + 1])

\* GeometryEngine.__getitem__(item) for an int.
getitem(store, item_) ==
  IF item_ < 0 \/ item_ > Len(store) THEN Returns(OutOfBounds(item_))
  ELSE list_item(store, item_)

\* engine[item]
GetItem(item_) == Outcome(<<"getitem", item_, Len(geo)>>, getitem(geo, item_))

\* The engine, its records added one by one, indexed by integers from
\* below 0 to above its length.
NextIndex ==
  \/ \E a \in Keywords : Add(a)
  \/ \E item_ \in -1..(MaxLines + 1) : GetItem(item_)

SpecIndex == InitText /\ [][NextIndex]_vars

----------------------------------------------------------------------------
(* Units, parsing and validation, call by call *)

\* The values converted.
Values == {Num(1), Num(2), Num(5)}

\* The unit symbols of lengths and of angles in the conversion table.
LengthUnits == {"mm", "cm", "m", "inch", "inches"}

AngleUnits == {"rad", "mrad", "deg"}

\* The base units unit_convert_dict is written for.
LengthBases == {"mm", "cm", "m", "inch"}

AngleBases == {"rad", "mrad", "deg"}

\* A token with and without unit, and the text of a list of tokens.
Tagged(numeral, unit) == <<numeral, "*", unit>>

Bare(numeral) == <<numeral>>

Text(tokens) == join(<<" ">>, tokens)

\* The position, rotation and dimension texts parsed.
PosTexts ==
  {Text(<<Tagged("1", "cm"), Tagged("2", "mm"), Tagged("5", "cm")>>),
   Text(<<Bare("1"), Bare("2"), Bare("5")>>),
   Text(<<Tagged("1", "cm"), Bare("2"), Tagged("5", "mm")>>),
   Text(<<Tagged("1", "furlong"), Tagged("2", "cm"), Tagged("5", "cm")>>),
   Text(<<Tagged("1", "cm"), Tagged("2", "mm")>>)}

RotTexts ==
  {Text(<<Tagged("0", "deg"), Tagged("90", "deg"), Tagged("0", "deg")>>),
   Text(<<Bare("0"), Bare("90"), Bare("0")>>),
   Text(<<Bare("0")>>),
   Text(<<Bare("5")>>),
   Text(<<Tagged("90", "deg")>>),
   Text(<<<<"ordered:">>, <<"zyx">>, Bare("0"), Bare("90"), Bare("0")>>)}

DimTexts ==
  {Text(<<Tagged("10", "cm"), Tagged("10", "cm"), Tagged("10", "cm")>>),
   Text(<<Bare("10"), Bare("10"), Bare("10")>>)}

\* The unit arguments handed to the constructor with a str to parse.
LengthArguments == {StrUnit(<<"cm">>), StrUnit(<<"mm">>), ListUnit(<<"mm", "deg">>)}

AngleArguments == {StrUnit(<<"deg">>), ListUnit(<<"mm", "deg">>)}

\* The keyword arguments of the constructor calls: strings to parse, and the
\* lists with units of the records added to the engine.
ParsedKeywords ==
  {Arguments(<<"A">>, <<"root">>, StrArg(pos), units, StrArg(rot), rot_units, "",
             StrArg(dims), units) :
     pos \in PosTexts, rot \in RotTexts, dims \in DimTexts,
     units \in LengthArguments, rot_units \in AngleArguments}

\* The base units set on the engine.
BaseUnits == {<<"cm", "rad">>, <<"mm", "deg">>}

\* No call was made yet.  The constructor and the conversions do not depend
\* on the calls made before, so each behaviour starts with one of them.
Idle == call[1] = ""

\* The state after a constructor call: ret holds the object made, reports
\* what the call printed.
Constructed(c, made) ==
  Called(c, geo, made.val, made.exc, IF made.exc = "" THEN made.val.warn ELSE <<>>)

\* obj = Geometry(); obj.force_unit_conversion = force;
\* obj.base_units = base_units; obj.__init__(obs): ret holds obj.
NewFromList(obs, force, base_units) ==
  /\ Idle
  /\ Constructed(<<"Geometry", [list |-> TRUE, obs |-> obs, base_units |-> base_units,
                                force |-> force], 0>>,
                 init_from_list(obs, force, base_units))

\* obj = Geometry(name = ..., ...): ret holds obj.
NewFromKeywords(a) ==
  /\ Idle
  /\ Constructed(<<"Geometry", [list |-> FALSE, args |-> a], 0>>,
                 init_from_keywords(a, FALSE))

\* obj.validate() on the object just made: ret holds the number returned.
Validate ==
  /\ call[1] = "Geometry"
  /\ exc = ""
  /\ Called(<<"validate", ret, 0>>, geo, validate(ret), "", <<>>)

\* str(obj) on the object just made or validated: ret holds the line.
Str ==
  /\ call[1] \in {"Geometry", "validate"}
  /\ exc = ""
  /\ Outcome(<<"str", IF call[1] = "Geometry" THEN ret ELSE call[2], 0>>,
             Geometry_str(IF call[1] = "Geometry" THEN ret ELSE call[2]))

\* GeometryROOT().convert(value, unit, new_unit): ret holds the value returned.
Convert(value, unit, new_unit) ==
  /\ Idle
  /\ Outcome(<<"convert", <<value, unit, new_unit>>, 0>>, convert(value, unit, new_unit))

\* convert(w, new_unit, unit) on the value w just returned by
\* convert(value, unit, new_unit).
ConvertBack ==
  /\ call[1] = "convert"
  /\ exc = ""
  /\ Outcome(<<"convert_back", call[2], 0>>, convert(ret, call[2][3], call[2][2]))

\* Geometry().unit_convert_dict([length, angle]): ret holds the two tables.
UnitConvertDict(length, angle) ==
  /\ Idle
  /\ Called(<<"unit_convert_dict", <<length, angle>>, 0>>, geo,
            unit_convert_dict(<<length, angle>>), "", <<>>)

NextUnits ==
  \/ \E pos \in PosTexts, rot \in RotTexts, dims \in DimTexts,
        force \in BOOLEAN, base_units \in BaseUnits :
       NewFromList(Fields(<<"A">>, <<"root">>, pos, rot, dims), force, base_units)
  \/ \E a \in ParsedKeywords \cup Keywords : NewFromKeywords(a)
  \/ Validate
  \/ Str
  \/ \E value \in Values, unit \in UnitWords, new_unit \in UnitWords :
       Convert(value, unit, new_unit)
  \/ ConvertBack
  \/ \E length \in LengthBases, angle \in AngleBases : UnitConvertDict(length, angle)

SpecUnits == InitText /\ [][NextUnits]_vars

\* obj = Geometry(name = ..., ..., force_unit_conversion = True): ret holds
\* obj.
NewForced(a) ==
  /\ Idle
  /\ Constructed(<<"Geometry", [list |-> FALSE, args |-> a, force |-> TRUE], 0>>,
                 init_from_keywords(a, TRUE))

\* The constructor calls alone: lines handed over by an engine with and
\* without forced conversion, and keyword calls with and without the
\* argument force_unit_conversion.
NextForce ==
  \/ \E pos \in PosTexts, rot \in RotTexts, dims \in DimTexts,
        force \in BOOLEAN, base_units \in BaseUnits :
       NewFromList(Fields(<<"A">>, <<"root">>, pos, rot, dims), force, base_units)
  \/ \E a \in ParsedKeywords : NewFromKeywords(a)
  \/ \E a \in ParsedKeywords : NewForced(a)

SpecForce == InitText /\ [][NextForce]_vars

----------------------------------------------------------------------------
(* Geometry objects and the lists they hold *)

\* Largest number of Geometry objects constructed.
MaxObjects == 2

\* The state after a statement on Geometry objects: objects are the objects
\* made so far, each with the identities of its pos and rot lists, and heap
\* the list objects.
Held(c, objects, heap) ==
  /\ geo' = objects
  /\ lists' = heap
  /\ call' = c
  /\ ret' = None
  /\ exc' = ""
  /\ reports' = <<>>
  /\ fresh' = (call[1] = "")
  /\ UNCHANGED <<shapes, volumes, translations, nodes, nplace>>

\* Geometry(name = ...) with no pos and no rot: set_position and
\* set_rotation bind self.pos and self.rot to the lists of the default
\* arguments.
NewWithDefaults ==
  /\ Len(geo) < MaxObjects
  /\ Held(<<"Geometry", "defaults", Len(geo)>>,
          Append(geo, [name |-> NameAt[Len(geo) + 1], pos |-> 1, rot |-> 2]), lists)

\* Geometry(name = ..., pos = [1, 2, 5], rot = [0, 90, 0]): self.pos and
\* self.rot are bound to the two lists the caller made for this call.
NewWithLists ==
  /\ Len(geo) < MaxObjects
  /\ Held(<<"Geometry", "lists", Len(geo)>>,
          Append(geo, [name |-> NameAt[Len(geo) + 1],
                       pos |-> Len(lists) + 1, rot |-> Len(lists) + 2]),
          lists \o <<<<1, 2, 5>>, <<0, 90, 0>>>>)

\* obj.pos[k] = v or obj.rot[k] = v on object i, counting k from 0.
SetItem(i, attr, k, v) ==
  Held(<<"setitem", <<i, attr, k, v>>, Len(geo)>>, geo,
       [lists EXCEPT ![geo[i][attr]][k + 1] = v])

NextAlias ==
  \/ NewWithDefaults
  \/ NewWithLists
  \/ \E i \in 1..Len(geo), attr \in {"pos", "rot"}, k \in {0, 2}, v \in {7} :
       SetItem(i, attr, k, v)

SpecAlias == InitText /\ [][NextAlias]_vars

----------------------------------------------------------------------------
(* Vocabulary of the properties *)

\* The records that have a node, and the node of a record.
Placed == {nodes[k].vol : k \in DOMAIN nodes}

NodesOf(i) == {k \in DOMAIN nodes : nodes[k].vol = i}

\* The last call was a build started at mother m on a builder as constructed.
FreshBuild(m) == fresh /\ call = <<"build_volumes", m, 0>>

IsOperation(g) == g.g4type[1] = "Operation:"

IsCopyOf(g) == g.g4type[1] = "CopyOf"

IsPrimitive(g) == g.g4type[1] \in Primitive

\* A primitive record that exists and has a material of its own.
IsPlain(g) == IsPrimitive(g) /\ g.exist = 1 /\ g.material # "Component"

Operands(g) == {g.g4type[3], g.g4type[5]}

\* The first record a build started at the top volume places.
FirstOfTop(i) ==
  /\ ~find_children(geo, top).none
  /\ find_children(geo, top).found[1] = i

----------------------------------------------------------------------------
(* C1 *)

\* Records i and j are Operation records that name each other as operands.
MutualOperations(i, j) ==
  /\ i # j
  /\ IsOperation(geo[i]) /\ geo[j].name \in Operands(geo[i])
  /\ IsOperation(geo[j]) /\ geo[i].name \in Operands(geo[j])

\* C1: a build from the top volume whose first record is one of two Operation
\* records naming each other (every other record a plain primitive under the
\* top volume) ends by raising the cyclic-geometry error, not by exhausting the
\* interpreter's stack.
C1_CyclicGeometryError ==
  \A i, j \in 1..Len(geo) :
    ( /\ FreshBuild(top)
      /\ MutualOperations(i, j)
      /\ FirstOfTop(i)
      /\ geo[j].mother = top
      /\ \A k \in 1..Len(geo) \ {i, j} : IsPlain(geo[k]) /\ geo[k].mother = top )
    => exc = "CyclicGeometryError"

----------------------------------------------------------------------------
(* C2 *)

\* C2: a build of a store of plain primitive records, started at any mother on a
\* builder as constructed, does not exhaust the interpreter's stack and opens
\* at most 4 * (number of records) + 1 place_volume frames.
C2_BuildBoundedByStore ==
  ( /\ fresh
    /\ call[1] = "build_volumes"
    /\ \A k \in 1..Len(geo) : IsPlain(geo[k]) )
  => /\ exc # "RecursionError"
     /\ nplace <= 4 * Len(geo) + 1

----------------------------------------------------------------------------
(* C3 *)

\* C3: a record with exist=0 that place_volume has processed (its transform is
\* memoized) has its shape in the shape table.
C3_GhostReachesShapeBuilt ==
  \A i \in 1..Len(geo) :
    (geo[i].exist = 0 /\ IsPrimitive(geo[i]) /\ geo[i].name \in DOMAIN translations)
    => geo[i].name \in DOMAIN shapes

----------------------------------------------------------------------------
(* C4 *)

\* C4: no record with exist=0 and no record of material "Component" has a
\* node, as a child or as the volume registered under a name.
C4_NeverPlaced ==
  /\ \A k \in DOMAIN nodes :
       geo[nodes[k].vol].exist # 0 /\ geo[nodes[k].vol].material # "Component"
  /\ \A n \in DOMAIN volumes :
       volumes[n] # 0 =>
         geo[volumes[n]].exist # 0 /\ geo[volumes[n]].material # "Component"

\* Witness of C4: after a build that placed a node, a Component record has its
\* shape built and a record with exist=0 has been processed, neither placed.
C4_Witness ==
  /\ nodes # <<>>
  /\ \E i, j \in 1..Len(geo) :
       /\ geo[i].material = "Component" /\ geo[i].name \in DOMAIN shapes
       /\ geo[j].exist = 0 /\ geo[j].name \in DOMAIN translations
       /\ {i, j} \cap Placed = {}

----------------------------------------------------------------------------
(* C5 *)

\* C5: in a build from the top volume every node hangs under the record's
\* declared mother, and that mother is the top volume or a placed record.
C5_AttachedUnderDeclaredMother ==
  FreshBuild(top) =>
    \A k \in DOMAIN nodes :
      LET g == geo[nodes[k].vol]
      IN  /\ nodes[k].mother = g.mother
          /\ g.mother = top \/ \E j \in Placed : geo[j].name = g.mother

----------------------------------------------------------------------------
(* C6 *)

\* C6: in a build from the top volume, when a record of unknown shape type
\* fails, the build goes on: no exception leaves build_volumes and every
\* later sibling that is a plain primitive is placed.
C6_FailureAbandonsOnlySubtree ==
  \A i, j \in 1..Len(geo) :
    ( /\ FreshBuild(top)
      /\ i < j
      /\ ~IsPrimitive(geo[i]) /\ ~IsOperation(geo[i]) /\ ~IsCopyOf(geo[i])
      /\ geo[i].mother = top
      /\ \A k \in 1..Len(geo) \ {i} : IsPlain(geo[k]) /\ geo[k].mother = top )
    => exc = "" /\ j \in Placed

----------------------------------------------------------------------------
(* C7 *)

\* C7: in a build from the top volume, an Operation record placed first whose
\* operands are primitive records later in the store (every record but the
\* Operation a primitive) is built: no exception, and its shape and those of
\* its operands are in the shape table.
C7_ForwardReferenceBuilt ==
  \A i \in 1..Len(geo) :
    ( /\ FreshBuild(top)
      /\ IsOperation(geo[i])
      /\ FirstOfTop(i)
      /\ \A n \in Operands(geo[i]) : find_volume(geo, n) > i
      /\ \A k \in 1..Len(geo) \ {i} : IsPrimitive(geo[k]) )
    => /\ exc = ""
       /\ geo[i].name \in DOMAIN shapes
       /\ Operands(geo[i]) \subseteq DOMAIN shapes

----------------------------------------------------------------------------
(* C8 *)

\* C8: in a build from the top volume, a "CopyOf X" record placed before X
\* (every other record a plain primitive under the top volume) is built with
\* X's shape and no exception leaves the build.
C8_CopyOfForwardReference ==
  \A i, j \in 1..Len(geo) :
    ( /\ FreshBuild(top)
      /\ IsCopyOf(geo[i])
      /\ geo[i].mother = top
      /\ geo[i].g4type[2] = geo[j].name
      /\ i < j
      /\ \A k \in 1..Len(geo) \ {i} : IsPlain(geo[k]) /\ geo[k].mother = top )
    => /\ exc = ""
       /\ {geo[i].name, geo[j].name} \subseteq DOMAIN shapes
       /\ shapes[geo[i].name] = shapes[geo[j].name]

----------------------------------------------------------------------------
(* C9 *)

\* The mother chain of record i reaches the name m in at most fuel steps.
RECURSIVE ChainReaches(_, _, _)
ChainReaches(i, m, fuel) ==
  \/ geo[i].mother = m
  \/ /\ fuel > 0
     /\ find_volume(geo, geo[i].mother) # 0
     /\ ChainReaches(find_volume(geo, geo[i].mother), m, fuel - 1)

Reaches(i, m) == ChainReaches(i, m, Len(geo))

\* The store without record i.
Without(g, i) == SubSeq(g, 1, i - 1) \o SubSeq(g, i + 1, Len(g))

\* What a build attached: name, mother and transform of each node, in order.
Attached(ns) == [k \in DOMAIN ns |-> <<ns[k].name, ns[k].mother, ns[k].transrot>>]

\* A builder as constructed, given the store g.
NewBuilder(g) ==
  [geo |-> g, shapes |-> <<>>, volumes |-> <<>>, translations |-> <<>>,
   nodes |-> <<>>, reports |-> <<>>, exc |-> "", nplace |-> 0]

\* Record i is not placed, and the build started at m attached the same nodes
\* and ended the same way as the build of the store without record i.
Ignored(i, m) ==
  /\ i \notin Placed
  /\ LET other == build_volumes(NewBuilder(Without(geo, i)), m, 1)
     IN  other.exc = exc /\ Attached(other.nodes) = Attached(nodes)

----------------------------------------------------------------------------
(* C10 *)

\* The position of the record at position i in cm (in 1/100 cm): 20 mm,
\* 5 cm, 10 mm and 2 m written out.
CmAt(i) ==
  CASE i = 1 -> <<200, 0, 0>>
    [] i = 2 -> <<0, 0, 500>>
    [] i = 3 -> <<100, 0, 20000>>
    [] OTHER -> <<100 * i, 100 * i, 100 * i>>

\* Every record is a plain primitive whose mother chain reaches the top volume.
AllPlainUnderTop ==
  \A i \in 1..Len(geo) : IsPlain(geo[i]) /\ Reaches(i, top)

\* C10: a build from the top volume of a store of plain primitives whose
\* mother chains reach the top volume places exactly one node per record,
\* under the volume of its declared mother, translated by its position in cm.
C10_OneNodePerRecord ==
  (FreshBuild(top) /\ AllPlainUnderTop) =>
    /\ exc = ""
    /\ Len(nodes) = Len(geo)
    /\ \A i \in 1..Len(geo) :
         \E k \in DOMAIN nodes :
           /\ NodesOf(i) = {k}
           /\ nodes[k].mother = geo[i].mother
           /\ nodes[k].mother_vol =
                (IF geo[i].mother = top THEN 0 ELSE find_volume(geo, geo[i].mother))
           /\ nodes[k].transrot.vec = CmAt(i)

\* Witness of C10: root <- A <- B with B at (0, 0, 5 cm): two nodes, B under A
\* with translation (0, 0, 5) cm.
C10_Witness ==
  /\ FreshBuild(top)
  /\ AllPlainUnderTop
  /\ Len(geo) = 2
  /\ geo[2].mother = geo[1].name
  /\ Len(nodes) = 2
  /\ nodes[2].name = "B" /\ nodes[2].mother = "A" /\ nodes[2].transrot.vec = <<0, 0, 500>>

----------------------------------------------------------------------------
(* C11 *)

\* The translation and the rotation of a record, computed from the record.
OwnTranslation(g) == compute_trans_vector(g).val

OwnRotation(g) == compute_trans_rotation(g).val

\* C11: the shape of a built Operation record with the '@' marker holds, for
\* its second operand, the translation rotationA * (translationB -
\* translationA) and the rotation rotationB * rotationA^-1 of the operands'
\* own records; with identity rotations, A at (2,0,0) cm and B at (5,0,0) cm
\* the translation is (3,0,0) cm.
C11_RelativeOperandTransform ==
  \A i \in 1..Len(geo) :
    (IsOperation(geo[i]) /\ geo[i].g4type[2] = "@" /\ geo[i].name \in DOMAIN shapes)
    => LET a == geo[find_volume(geo, geo[i].g4type[3])]
           b == geo[find_volume(geo, geo[i].g4type[5])]
           ta == OwnTranslation(a)
           tb == OwnTranslation(b)
           t == shapes[geo[i].name].transrot2
       IN  /\ t.vec = MatVec(OwnRotation(a), <<tb[1] - ta[1], tb[2] - ta[2], tb[3] - ta[3]>>)
           /\ t.rot = MatMul(OwnRotation(b), Inverse(OwnRotation(a)))
           /\ (a.rot = <<0, 0, 0>> /\ b.rot = <<0, 0, 0>>)
                => t.vec = <<300, 0, 0>> /\ t.rot = Rotation

\* Witness of C11: "Operation:@A-B" built in a build from the top volume,
\* A at (2,0,0) cm and B at (5,0,0) cm unturned: net translation (3,0,0) cm.
C11_Witness ==
  /\ FreshBuild(top)
  /\ exc = ""
  /\ geo[1].rot = <<0, 0, 0>> /\ geo[2].rot = <<0, 0, 0>>
  /\ geo[3].g4type = <<"Operation:", "@", "A", "-", "B">>
  /\ "C" \in DOMAIN shapes
  /\ shapes["C"].transrot2.vec = <<300, 0, 0>>
  /\ translations["B"][1] = <<500, 0, 0>>

\* C12: find_children(name) returns the list of all records whose mother is
\* name, in the order of the store, and returns an empty list, not another
\* value, when no record has that mother.
C12_FindChildrenReturnsList ==
  call[1] = "find_children" =>
    /\ ~ret.none
    /\ ret.found = SelectSeq(Indices(geo), LAMBDA i : geo[i].mother = call[2])

\* The lines of a file that have two fields or more, in order.
RecordLines(lines) == SelectSeq(lines, LAMBDA line : Len(split_on(line, "|")) >= 2)

\* C13: txt_read_geometry never raises because of a malformed line: every
\* line with two fields or more appends exactly one record to the store, in
\* the order of the lines, also when the line has too few fields, a
\* malformed number or fails validate(); the other lines append nothing.
C13_TxtReadNeverRaises ==
  call[1] = "txt_read_geometry" =>
    LET lines == RecordLines(call[2])
    IN  /\ exc = ""
        /\ Len(geo) = call[3] + Len(lines)
        /\ \A k \in 1..Len(lines) :
             geo[call[3] + k].name = strip(split_on(lines[k], "|")[1])

\* The unit tag of each of n components: the units of a list, the one unit
\* of a str for every component.
Tags(units, n) == IF units.str THEN [k \in 1..n |-> units.words[1]] ELSE units.words

\* Two records equal in every attribute.
SameRecord(a, b) ==
  /\ a.name = b.name /\ a.mother = b.mother /\ a.description = b.description
  /\ a.pos = b.pos /\ Tags(a.pos_units, Len(a.pos)) = Tags(b.pos_units, Len(b.pos))
  /\ a.rot = b.rot /\ Tags(a.rot_units, Len(a.rot)) = Tags(b.rot_units, Len(b.rot))
  /\ a.rot_order = b.rot_order
  /\ a.col = b.col /\ a.g4type = b.g4type
  /\ a.dimensions = b.dimensions
  /\ Tags(a.dims_units, Len(a.dimensions)) = Tags(b.dims_units, Len(b.dimensions))
  /\ a.material = b.material /\ a.magfield = b.magfield
  /\ a.ncopy = b.ncopy /\ a.pmany = b.pmany /\ a.exist = b.exist
  /\ a.visible = b.visible /\ a.style = b.style
  /\ a.sensitivity = b.sensitivity /\ a.hittype = b.hittype
  /\ a.identity = b.identity

\* C14: text round trip: a store whose records all validate cleanly, written
\* one line per record in store order and read into a new store without
\* forced unit conversion, gives as many records in the same order, each
\* equal to the original in every attribute, the rotation order and the unit
\* tag of every component included.
C14_TextRoundTrip ==
  (/\ call[1] = "txt_read_back"
   /\ \A k \in 1..Len(geo) : validate(geo[k]) = 0) =>
    /\ exc = ""
    /\ Len(ret) = Len(geo)
    /\ \A k \in 1..Len(geo) : SameRecord(ret[k], geo[k])

\* Two unit symbols of the same quantity kind, both in the conversion table.
SameKind(a, b) ==
  \/ a \in LengthUnits /\ b \in LengthUnits
  \/ a \in AngleUnits /\ b \in AngleUnits

\* C15: unit conversion round-trips: for every value v and every two unit
\* symbols a and b of the conversion table that are of the same quantity
\* kind, convert(convert(v, a, b), b, a) equals v.
C15_ConvertRoundTrip ==
  (call[1] = "convert_back" /\ SameKind(call[2][2], call[2][3])) =>
    /\ exc = ""
    /\ ret = call[2][1]

\* One of each length unit in cm, and of each angle unit in rad.
InCm ==
  [mm |-> Number(1, 10, 0), cm |-> Num(1), m |-> Num(100),
   inch |-> Number(254, 100, 0), inches |-> Number(254, 100, 0)]

InRad == [rad |-> Num(1), mrad |-> Number(1, 1000, 0), deg |-> Number(1, 180, 1)]

\* The quotient of two numbers.
Ratio(x, y) == Number(x.n * y.d, x.d * y.n, x.p - y.p)

\* C16: for every choice of a length base among mm, cm, m, inch and an angle
\* base among rad, mrad, deg, unit_convert_dict returns tables in which every
\* unit symbol has the factor that converts one of that unit into the chosen
\* base unit of its kind and is mapped to the symbol of that base unit, and
\* 'counts' is mapped to 'counts' with the factor 1.
C16_TablesOfBaseUnits ==
  call[1] = "unit_convert_dict" =>
    LET length == call[2][1]
        angle == call[2][2]
    IN  /\ DOMAIN ret.conv = LengthUnits \cup AngleUnits \cup {"counts"}
        /\ DOMAIN ret.trans = DOMAIN ret.conv
        /\ \A u \in LengthUnits :
             /\ ret.conv[u] = Ratio(InCm[u], InCm[length])
             /\ ret.trans[u] = length
        /\ \A u \in AngleUnits :
             /\ ret.conv[u] = Ratio(InRad[u], InRad[angle])
             /\ ret.trans[u] = angle
        /\ ret.conv["counts"] = Num(1)
        /\ ret.trans["counts"] = "counts"

\* The unit symbols the tables support.
Supported == LengthUnits \cup AngleUnits \cup {"counts"}

\* C17: a conversion that involves a unit symbol outside the supported set,
\* as source unit or as target unit, fails with an error for that call and
\* returns no number.
C17_UnknownUnitIsAnError ==
  (/\ call[1] = "convert"
   /\ (call[2][2] \notin Supported \/ call[2][3] \notin Supported)) =>
    /\ exc # ""
    /\ ret = None

\* The positions of the tokens without '*' in a list of tokens.
BareAt(tokens) == {k \in 1..Len(tokens) : \A j \in 1..Len(tokens[k]) : tokens[k][j] # "*"}

\* The tokens of a rotation text after its 'ordered: <order>' prefix.
RotTokens(text) ==
  LET tokens == split(text)
  IN  IF tokens # <<>> /\ tokens[1] = <<"ordered:">> THEN SubSeq(tokens, 3, Len(tokens))
      ELSE tokens

\* The texts a constructor call c parsed, and the base units configured for
\* it: the base_units set by the engine for a line, the unit arguments for a
\* call with keywords.
PosText(c) == IF c.list THEN c.obs[4] ELSE c.args.pos.val

RotText(c) == IF c.list THEN c.obs[5] ELSE c.args.rot.val

DimText(c) == IF c.list THEN c.obs[8] ELSE c.args.dimensions.val

BaseLength(c) == IF c.list THEN c.base_units[1] ELSE c.args.pos_units.words[1]

BaseAngle(c) ==
  IF c.list THEN c.base_units[2]
  ELSE IF c.args.rot_units.str THEN c.args.rot_units.words[1]
  ELSE c.args.rot_units.words[2]

\* The constructor call c parsed its position, rotation and dimensions.
Parsed(c) == c.list \/ c.args.pos.str

\* C18: a numeric token without a '*unit' suffix gives a component with the
\* configured base unit of its own quantity kind, the base length unit for
\* position and dimension tokens and the base angle unit for rotation tokens,
\* for a field of a text line and for a str handed to the constructor with
\* a unit argument.
C18_BareTokenGetsBaseUnit ==
  (call[1] = "Geometry" /\ exc = "" /\ Parsed(call[2])) =>
    LET c == call[2]
    IN  /\ \A k \in BareAt(split(PosText(c))) : ret.pos_units.words[k] = BaseLength(c)
        /\ \A k \in BareAt(split(DimText(c))) : ret.dims_units.words[k] = BaseLength(c)
        /\ Len(RotTokens(RotText(c))) = 3 =>
             \A k \in BareAt(RotTokens(RotText(c))) : ret.rot_units.words[k] = BaseAngle(c)

\* Every token of the text carries a supported unit.
AllTagged(text) ==
  \A k \in 1..Len(split(text)) :
    LET parts == split_on(split(text)[k], "*")
    IN  Len(parts) = 2 /\ Word(parts[2]) \in Supported

\* C19: a rotation field of a single token is accepted only when the token
\* is the bare "0", which gives the rotation (0, 0, 0) in the base angle unit
\* and a diagnostic; every other single token is rejected with an error and
\* gives no rotation.
C19_SingleTokenRotation ==
  (/\ call[1] = "Geometry"
   /\ Parsed(call[2])
   /\ AllTagged(PosText(call[2])) /\ AllTagged(DimText(call[2]))
   /\ Len(split(RotText(call[2]))) = 1) =>
    IF split(RotText(call[2]))[1] = <<"0">>
    THEN /\ exc = ""
         /\ ret.rot = <<Num(0), Num(0), Num(0)>>
         /\ Tags(ret.rot_units, 3) = [k \in 1..3 |-> BaseAngle(call[2])]
         /\ reports # <<>>
    ELSE exc # ""

\* The units hold a single tag or one tag for each of the n components.
TagCountAccepted(units, n) == units.str \/ Len(units.words) = 1 \/ Len(units.words) = n

\* The unit tags of the position, rotation and dimensions of a record are
\* of an accepted count.
TagCountsAccepted(self) ==
  /\ TagCountAccepted(self.pos_units, Len(self.pos))
  /\ TagCountAccepted(self.rot_units, Len(self.rot))
  /\ TagCountAccepted(self.dims_units, Len(self.dimensions))

\* C20: the unit tags of position, rotation and dimensions are accepted only
\* when there is a single tag or one tag for each component: a record with
\* another count of tags is reported invalid by validate() and is not written
\* as if it were well formed.
C20_TagCountsValidated ==
  /\ (call[1] = "validate" /\ ~TagCountsAccepted(call[2])) => ret # 0
  /\ (call[1] = "str" /\ ~TagCountsAccepted(call[2])) => exc # ""

----------------------------------------------------------------------------
(* C21 *)

\* The axes named by the six permutations of xyz, in the order of the tag.
SixOrders ==
  [xyz |-> <<"x", "y", "z">>, xzy |-> <<"x", "z", "y">>, yxz |-> <<"y", "x", "z">>,
   yzx |-> <<"y", "z", "x">>, zxy |-> <<"z", "x", "y">>, zyx |-> <<"z", "y", "x">>]

\* The i-th angle of the record, given in degrees, applied about the i-th
\* axis, in sequence.
InSequence(g, axes) ==
  rotate(rotate(rotate(Rotation, axes[1], Times(Num(g.rot[1]), radians1)),
                axes[2], Times(Num(g.rot[2]), radians1)),
         axes[3], Times(Num(g.rot[3]), radians1))

\* The last call was place_volume(geo[1]) on a builder holding the top
\* volume and nothing of record A.
PlacedAlone ==
  /\ call = <<"place_volume", None, 1>>
  /\ top \in DOMAIN volumes

\* C21: place_volume of a record whose order tag is empty or one of the six
\* permutations of xyz memoizes the rotation made of the i-th angle about
\* the i-th axis of the tag, in sequence (the empty tag as xyz); for any
\* other tag the call raises, memoizes no transform and places no node.
C21_EveryPermutationAccepted ==
  /\ (PlacedAlone /\ geo[1].rot_order \in DOMAIN SixOrders \cup {""}
        => /\ exc = ""
           /\ geo[1].name \in DOMAIN translations
           /\ translations[geo[1].name][2] =
                InSequence(geo[1], SixOrders[IF geo[1].rot_order = "" THEN "xyz"
                                                ELSE geo[1].rot_order]))
  /\ (PlacedAlone /\ geo[1].rot_order \notin DOMAIN SixOrders \cup {""}
        => /\ exc = "NameError"
           /\ geo[1].name \notin DOMAIN translations
           /\ NodesOf(1) = {})

----------------------------------------------------------------------------
(* C22 *)

\* C22: a build does not mutate the store: after build_volumes returns or
\* raises, the store holds the same records in the same order, and every
\* attribute of every record, the unit tags of its position, rotation and
\* dimensions included, has the value it had before the build.
C22_BuildLeavesStore ==
  [][call'[1] = "build_volumes" => geo' = geo]_vars

----------------------------------------------------------------------------
(* C23 *)

\* Record i has a node made from its own data: under its declared mother,
\* translated by its own position.
PlacedFromOwnData(i) ==
  \E k \in DOMAIN nodes :
    /\ nodes[k].name = geo[i].name
    /\ nodes[k].mother = geo[i].mother
    /\ nodes[k].transrot.vec = OwnTranslation(geo[i])

\* C23: the memo tables are scoped to one build: a build from the top volume
\* on a builder that has built another store before places every record
\* of the store it was handed (plain primitives whose mother chains reach
\* the top volume) from that store's own data, whichever names were built
\* before.
C23_TablesScopedToOneBuild ==
  (call = <<"build_volumes", top, 0>> /\ AllPlainUnderTop) =>
    /\ exc = ""
    /\ \A i \in 1..Len(geo) : PlacedFromOwnData(i)

----------------------------------------------------------------------------
(* C24 *)

\* C24: records share no mutable default state: setting a component of the
\* position or rotation of one record leaves the position and the rotation
\* of every other record as they were, and a record constructed afterwards
\* without pos and rot has the position [0, 0, 0] and the rotation
\* [0, 0, 0].
C24_NoSharedDefaults ==
  [][/\ call'[1] = "setitem" =>
          \A j \in 1..Len(geo) :
            j # call'[2][1] =>
              /\ lists'[geo'[j].pos] = lists[geo[j].pos]
              /\ lists'[geo'[j].rot] = lists[geo[j].rot]
     /\ call'[1] = "Geometry" /\ call'[2] = "defaults" =>
          /\ lists'[geo'[Len(geo')].pos] = <<0, 0, 0>>
          /\ lists'[geo'[Len(geo')].rot] = <<0, 0, 0>>]_vars

----------------------------------------------------------------------------
(* C25 *)

\* The records whose mother is m, in the order of the store.
Children(m) == SelectSeq(Indices(geo), LAMBDA i : geo[i].mother = m)

\* The records below the volume m in depth-first pre-order: each child in
\* the order of the store, followed by all that is below it.
RECURSIVE PreOrder(_, _)
RECURSIVE PreOrderOf(_, _)
PreOrderOf(children, fuel) ==
  IF children = <<>> THEN <<>>
  ELSE <<Head(children)>> \o PreOrder(geo[Head(children)].name, fuel - 1)
       \o PreOrderOf(Tail(children), fuel)

PreOrder(m, fuel) == IF fuel = 0 THEN <<>> ELSE PreOrderOf(Children(m), fuel)

\* The records attached, in the order of the AddNode calls.
AttachedInOrder == [k \in DOMAIN nodes |-> nodes[k].vol]

----------------------------------------------------------------------------
(* C26 *)

\* C26: the shape of a built Operation record without the '@' marker holds,
\* for its second operand, exactly the translation and the rotation memoized
\* for that operand, which are those of the operand's own record; with or
\* without the marker the first operand is combined with no transform, so
\* its position and rotation do not enter the shape.
C26_OperandTransformAsIs ==
  \A i \in 1..Len(geo) :
    (IsOperation(geo[i]) /\ geo[i].name \in DOMAIN shapes)
    => LET b == geo[find_volume(geo, geo[i].g4type[5])]
           s == shapes[geo[i].name]
       IN  /\ s.transrot1 = 0
           /\ s.shape1 = shapes[geo[i].g4type[3]].name
           /\ geo[i].g4type[2] # "@" =>
                /\ s.transrot2.vec = translations[b.name][1]
                /\ s.transrot2.rot = translations[b.name][2]
                /\ s.transrot2.vec = OwnTranslation(b)
                /\ s.transrot2.rot = OwnRotation(b)

\* Witness of C26: "Operation:A-B" built in a build from the top volume, A at
\* (2,0,0) cm turned about x, B at (5,0,0) cm: the second operand keeps its
\* translation (5,0,0) cm.
C26_Witness ==
  /\ FreshBuild(top)
  /\ exc = ""
  /\ geo[1].rot = <<90, 0, 0>>
  /\ geo[3].g4type = <<"Operation:", "", "A", "-", "B">>
  /\ "C" \in DOMAIN shapes
  /\ shapes["C"].transrot1 = 0
  /\ shapes["C"].transrot2.vec = <<500, 0, 0>>

----------------------------------------------------------------------------
(* C27 *)

\* C27: after any sequence of place_volume and build_volumes calls, those
\* that returned early or raised included, every name that has a node has a
\* shape in the shape table, and every name that has a shape has a memoized
\* translation and rotation.
C27_TablesConsistent ==
  /\ \A k \in DOMAIN nodes : nodes[k].name \in DOMAIN shapes
  /\ \A name \in DOMAIN shapes : name \in DOMAIN translations

\* Witness of C27: a call raised after a node was attached and after a shape
\* without a node was put in the table.
C27_Witness ==
  /\ exc # ""
  /\ nodes # <<>>
  /\ \E name \in DOMAIN shapes : \A k \in DOMAIN nodes : nodes[k].name # name

----------------------------------------------------------------------------
(* C28 *)

\* C28: over the whole life of a builder a record name is attached at most
\* once: whatever the store holds (several records of one name, operands
\* named by several Operation records, operands built on demand) and
\* whatever calls are made, no two nodes carry the same name.
C28_AttachedAtMostOnce ==
  \A k1, k2 \in DOMAIN nodes : nodes[k1].name = nodes[k2].name => k1 = k2

----------------------------------------------------------------------------
(* C29 *)

\* C29: indexing the engine by an integer is total: engine[i] returns the
\* i-th record in the order of insertion when 0 <= i < len(engine), and the
\* out-of-bounds message for every other i; it never raises.
C29_IndexingTotal ==
  call[1] = "getitem" =>
    /\ exc = ""
    /\ (0 <= call[2] /\ call[2] < Len(geo)) => ret = geo[call[2] + 1]
    /\ ~(0 <= call[2] /\ call[2] < Len(geo)) => ret = OutOfBounds(call[2])

----------------------------------------------------------------------------
(* C30 *)

\* Conversion was forced for the constructor call c: by the flag the engine
\* set for a line, or by the argument force_unit_conversion = True.
Forced(c) == IF c.list THEN c.force ELSE "force" \in DOMAIN c

\* The positions of the tokens num*unit in a list of tokens.
TaggedAt(tokens) == (1..Len(tokens)) \ BareAt(tokens)

\* The unit-tagged tokens of a field are stored in values and units as the
\* claim says: converted into the base unit when forced (in holds one of
\* each unit of the kind in a common unit), as written otherwise.
StoredAsClaimed(values, units, tokens, forced, in, base) ==
  \A k \in TaggedAt(tokens) :
    IF forced
    THEN /\ tokens[k][3] \in DOMAIN in
         /\ values[k] = Times(float(<<tokens[k][1]>>).val,
                              Ratio(in[tokens[k][3]], in[base]))
         /\ units.words[k] = base
    ELSE /\ values[k] = float(<<tokens[k][1]>>).val
         /\ units.words[k] = tokens[k][3]

\* C30: when unit conversion is forced for a record, through the constructor
\* argument force_unit_conversion = True or through the flag the engine sets
\* before it parses a line, every unit-tagged token of position, rotation
\* and dimensions is stored as its value times the conversion factor, tagged
\* with the base unit of its kind; when it is not forced, value and unit tag
\* are stored as written.
C30_ForcedConversion ==
  (call[1] = "Geometry" /\ exc = "" /\ Parsed(call[2])) =>
    LET c == call[2]
    IN  /\ StoredAsClaimed(ret.pos, ret.pos_units, split(PosText(c)), Forced(c),
                           InCm, BaseLength(c))
        /\ StoredAsClaimed(ret.dimensions, ret.dims_units, split(DimText(c)), Forced(c),
                           InCm, BaseLength(c))
        /\ Len(RotTokens(RotText(c))) > 1 =>
             StoredAsClaimed(ret.rot, ret.rot_units, RotTokens(RotText(c)), Forced(c),
                             InRad, BaseAngle(c))

====
